---- MODULE Spec2Model ----
(***************************************************************************)
(* Model of the request-handling core of the chatbot:                      *)
(*   - TokenBucket / RateLimiter          (src/src/rate_limiter.py)        *)
(*   - LRUCacheWithTTL                    (src/src/cache.py)               *)
(*   - ChatbotWithMemory.chat             (src/src/llm_client.py)          *)
(*   - ChatDatabase.log_chat_turn         (src/src/database.py)            *)
(*                                                                         *)
(* Time.  time.time() is the variable now, counted in ticks; a tick is     *)
(* 60 / TokUnit seconds.  The float token count of the bucket is kept in   *)
(* fixed point: one token is TokUnit units, so RateLimiter(R), whose       *)
(* refill rate is R / 60 tokens per second, refills R units per tick.      *)
(* Texts (prompts, responses, model names, context strings, cache keys)    *)
(* are strings; the cache key is the string that _generate_key hashes      *)
(* (SHA-256 is taken to be injective on it).                               *)
(***************************************************************************)
EXTENDS Integers, Sequences, FiniteSets, TLC

VARIABLES
    now,                  \* the value time.time() returns
    bucket,               \* TokenBucket: capacity, tokens, refill_rate, last_refill
    requests_per_minute,  \* RateLimiter.requests_per_minute
    cache,                \* LRUCacheWithTTL.cache: OrderedDict, least recently used first
    max_size,             \* LRUCacheWithTTL.max_size
    ttl_seconds,          \* LRUCacheWithTTL.ttl_seconds (in ticks)
    hits,                 \* LRUCacheWithTTL.hits
    misses,               \* LRUCacheWithTTL.misses
    memory,               \* ChatbotWithMemory.memory.chat_memory.messages
    database,             \* rows of the chat_history table, in insertion order
    last,                 \* the call that was made last, and what it returned or raised
    hist,                 \* history of the calls, kept for the scenario properties
    threads               \* the calls in progress, when calls are made concurrently

vars == <<now, bucket, requests_per_minute, cache, max_size, ttl_seconds,
          hits, misses, memory, database, last, hist, threads>>

bucketVars == <<bucket, requests_per_minute>>
cacheVars == <<cache, max_size, ttl_seconds, hits, misses>>
chatVars == <<memory, database>>

----------------------------------------------------------------------------
(* Bounds of the model *)

TokUnit == 4          \* fixed-point units per token = ticks per minute
MaxTime == 6          \* the clock stops at this tick
MaxCapacity == 2      \* TokenBucket capacities 1..MaxCapacity
MaxRate == 3          \* TokenBucket refill rates 1..MaxRate units per tick
MaxCacheSize == 2     \* LRUCacheWithTTL max_size 1..MaxCacheSize
MaxTtl == 1           \* LRUCacheWithTTL ttl_seconds 1..MaxTtl ticks
MaxAccess == 1        \* an entry's access_count stops here
MaxGets == 1          \* hits + misses stops here

MaxRpm == 2           \* RateLimiter requests_per_minute 1..MaxRpm
MaxChats == 3         \* chat() is called at most this many times
MaxTurns == 6         \* chat() calls of one long conversation
MaxCalls == 2         \* calls one thread makes when calls are concurrent
MaxTimeout == 2       \* call_llm is given a timeout of 1..MaxTimeout ticks
MaxRows == 3          \* rows logged into chat_history by direct calls
MaxCounted == 3       \* get calls counted between two clear calls

\* the clock stops at this tick when the cache is in use: an entry put at
\* tick 0 is seen before, at and after its expiry
MaxCacheTime == MaxTtl + 1

\* the messages kept in memory: chat() truncates to all_messages[-8:]
MemoryLimit == 8

Min(a, b) == IF a <= b THEN a ELSE b

----------------------------------------------------------------------------
(* TokenBucket *)

\* TokenBucket.__init__ at clock reading t; tokens are stored in units
TokenBucket(capacity, refill_rate, t) ==
    [capacity |-> capacity,
     tokens |-> capacity * TokUnit,
     refill_rate |-> refill_rate,
     last_refill |-> t]

\* a refill that forgets to clamp at capacity
RefillUnclamped(b, t) ==
    [b EXCEPT !.tokens = b.tokens + (t - b.last_refill) * b.refill_rate,
              !.last_refill = t]

\* a refill that stamps last_refill before it takes the elapsed time
RefillStampFirst(b, t) == [b EXCEPT !.last_refill = t]

\* a refill that credits the elapsed time without moving last_refill
RefillNoStamp(b, t) ==
    [b EXCEPT !.tokens = Min(b.capacity * TokUnit,
                             b.tokens + (t - b.last_refill) * b.refill_rate)]

\* TokenBucket._refill at clock reading t
Refill(b, t) ==
    [b EXCEPT !.tokens = Min(b.capacity * TokUnit,
                             b.tokens + (t - b.last_refill) * b.refill_rate),
              !.last_refill = t]

\* a test that asks for more than n tokens
EnoughStrict(b, n) == b.tokens > n * TokUnit

\* the test of TokenBucket.consume and time_until_available: tokens >= n
Enough(b, n) == b.tokens >= n * TokUnit

\* a consume that takes what is there when there is not enough
ConsumeBucketTakeRest(b, n, t) ==
    LET r == Refill(b, t)
    IN  IF Enough(r, n) THEN [r EXCEPT !.tokens = r.tokens - n * TokUnit]
        ELSE [r EXCEPT !.tokens = 0]

\* TokenBucket.consume(n) at clock reading t: the bucket afterwards
ConsumeBucket(b, n, t) ==
    LET r == Refill(b, t)
    IN  IF Enough(r, n) THEN [r EXCEPT !.tokens = r.tokens - n * TokUnit] ELSE r

\* TokenBucket.consume(n) at clock reading t: the value returned
ConsumeOk(b, n, t) == Enough(Refill(b, t), n)

\* a time_until_available that reports the time for one token less
TimeUntilAvailableShort(b, n, t) ==
    LET r == Refill(b, t)
    IN  IF Enough(r, n) THEN <<0, 1>>
        ELSE <<(n - 1) * TokUnit - r.tokens, r.refill_rate>>

\* TokenBucket.time_until_available(n) at clock reading t: the wait, in
\* ticks, as the fraction <<numerator, denominator>>
TimeUntilAvailable(b, n, t) ==
    LET r == Refill(b, t)
    IN  IF Enough(r, n) THEN <<0, 1>>
        ELSE <<n * TokUnit - r.tokens, r.refill_rate>>

\* RateLimiter.__init__(requests_per_minute) at clock reading t:
\* refill_rate = R / 60 tokens per second = R units per tick
RateLimiter(rpm, t) == TokenBucket(rpm, rpm, t)


----------------------------------------------------------------------------
(* LRUCacheWithTTL.  The OrderedDict is a sequence of entries, the least   *)
(* recently used first; an entry carries its key.                          *)

\* CacheEntry, with the key it is stored under
CacheEntry(key, value, timestamp, access_count) ==
    [key |-> key, value |-> value, timestamp |-> timestamp,
     access_count |-> access_count]

\* a key that leaves the model out
GenerateKeyNoModel(prompt, model, context) == prompt \o "||" \o context

\* LRUCacheWithTTL._generate_key: the string f"{prompt}|{model}|{context}"
\* whose SHA-256 digest is the key
GenerateKey(prompt, model, context) == prompt \o "|" \o model \o "|" \o context

\* an expiry test that expires an entry already at elapsed = ttl
IsExpiredAtTtl(entry, ttl, t) == t - entry.timestamp >= ttl

\* LRUCacheWithTTL._is_expired at clock reading t (the same test is written
\* out in _cleanup_expired)
IsExpired(entry, ttl, t) == t - entry.timestamp > ttl

\* a cleanup that removes the least recently used entry only, when it is expired
CleanupExpiredFirstOnly(c, ttl, t) ==
    IF c # <<>> /\ IsExpired(c[1], ttl, t) THEN Tail(c) ELSE c

\* LRUCacheWithTTL._cleanup_expired at clock reading t
CleanupExpired(c, ttl, t) == SelectSeq(c, LAMBDA e : ~IsExpired(e, ttl, t))

\* key in self.cache
HasKey(c, key) == \E i \in 1..Len(c) : c[i].key = key

\* self.cache[key]
EntryOf(c, key) == c[CHOOSE i \in 1..Len(c) : c[i].key = key]

\* del self.cache[key]
DelKey(c, key) == SelectSeq(c, LAMBDA e : e.key # key)

\* the keys stored, least recently used first
KeysOf(c) == [i \in 1..Len(c) |-> c[i].key]

KeySet(c) == {c[i].key : i \in 1..Len(c)}

\* LRUCacheWithTTL.get: whether it is a hit; t1 is the clock reading of the
\* cleanup and t2 >= t1 the reading of _is_expired
GetHit(c, ttl, key, t1, t2) ==
    LET c1 == CleanupExpired(c, ttl, t1)
    IN  HasKey(c1, key) /\ ~IsExpired(EntryOf(c1, key), ttl, t2)

\* a get that counts the access and leaves the entry where it is
GetCacheInPlace(c, ttl, key, t1, t2) ==
    LET c1 == CleanupExpired(c, ttl, t1)
    IN  IF HasKey(c1, key)
        THEN LET e == EntryOf(c1, key)
             IN  IF IsExpired(e, ttl, t2)
                 THEN DelKey(c1, key)
                 ELSE [i \in 1..Len(c1) |->
                         IF c1[i].key = key
                         THEN [e EXCEPT !.access_count = e.access_count + 1]
                         ELSE c1[i]]
        ELSE c1

\* a get that stamps the entry it returns with the time of the access
GetCacheTouch(c, ttl, key, t1, t2) ==
    LET c1 == CleanupExpired(c, ttl, t1)
    IN  IF HasKey(c1, key)
        THEN LET e == EntryOf(c1, key)
             IN  IF IsExpired(e, ttl, t2)
                 THEN DelKey(c1, key)
                 ELSE Append(DelKey(c1, key),
                             [e EXCEPT !.access_count = e.access_count + 1,
                                       !.timestamp = t2])
        ELSE c1

\* LRUCacheWithTTL.get: the map afterwards
GetCache(c, ttl, key, t1, t2) ==
    LET c1 == CleanupExpired(c, ttl, t1)
    IN  IF HasKey(c1, key)
        THEN LET e == EntryOf(c1, key)
             IN  IF IsExpired(e, ttl, t2)
                 THEN DelKey(c1, key)
                 ELSE Append(DelKey(c1, key),
                             [e EXCEPT !.access_count = e.access_count + 1])
        ELSE c1

\* LRUCacheWithTTL.get: the value returned on a hit
GetValue(c, key) == EntryOf(c, key).value

\* a put that never evicts
PutCacheNoEvict(c, max, key, value, t) ==
    IF HasKey(c, key)
    THEN Append(DelKey(c, key),
                CacheEntry(key, value, t, EntryOf(c, key).access_count + 1))
    ELSE Append(c, CacheEntry(key, value, t, 0))

\* a put that evicts the most recently used entry
PutCacheEvictNewest(c, max, key, value, t) ==
    IF HasKey(c, key)
    THEN Append(DelKey(c, key),
                CacheEntry(key, value, t, EntryOf(c, key).access_count + 1))
    ELSE IF Len(c) + 1 > max
         THEN Append(SubSeq(c, 1, Len(c) - 1), CacheEntry(key, value, t, 0))
         ELSE Append(c, CacheEntry(key, value, t, 0))

\* a put that keeps the timestamp of the entry it replaces
PutCacheKeepStamp(c, max, key, value, t) ==
    IF HasKey(c, key)
    THEN Append(DelKey(c, key),
                CacheEntry(key, value, EntryOf(c, key).timestamp,
                           EntryOf(c, key).access_count + 1))
    ELSE LET c1 == Append(c, CacheEntry(key, value, t, 0))
         IN  IF Len(c1) > max THEN Tail(c1) ELSE c1

\* LRUCacheWithTTL.put at clock reading t: the map afterwards
PutCache(c, max, key, value, t) ==
    IF HasKey(c, key)
    THEN Append(DelKey(c, key),
                CacheEntry(key, value, t, EntryOf(c, key).access_count + 1))
    ELSE LET c1 == Append(c, CacheEntry(key, value, t, 0))
         IN  IF Len(c1) > max THEN Tail(c1) ELSE c1

----------------------------------------------------------------------------
(* The call made last.  op: the method; outcome: how it ended; ret: the   *)
(* text returned; n: the number passed or returned; wait: the result of   *)
(* time_until_available as <<numerator, denominator>>; args: the triple   *)
(* <<prompt, model, context>> of a get or put (kept when track is set);   *)
(* error: the exception raised; dropped: the messages chat() truncated;   *)
(* rows: the rows a query of the chat_history table returned.             *)

\* no exception: the call returned
NoError == [type |-> "", status_code |-> 0, message |-> ""]

\* no call is in progress: the calls are made one after another
NoThreads == <<>>

Last(op, outcome, ret, n, wait) ==
    [op |-> op, outcome |-> outcome, ret |-> ret, n |-> n, wait |-> wait,
     args |-> <<>>, error |-> NoError, dropped |-> 0, rows |-> <<>>]

WithArgs(l, h, tr) == IF h.track THEN [l EXCEPT !.args = tr] ELSE l

NoWait == <<0, 1>>

\* the history before any call: a fresh bucket, nothing inserted
InitHist ==
    [phase |-> "fresh", count |-> 0, at |-> 0,
     track |-> FALSE, inserted |-> {}, puts |-> {},
     run |-> <<>>, hitKey |-> "", valid |-> TRUE, histories |-> {}]

\* the burst history after consume(n) returned ok at clock reading t
BurstAfter(h, b, n, ok, t) ==
    IF n # 1 THEN [h EXCEPT !.phase = "off"]
    ELSE IF h.phase = "fresh" \/ (h.phase = "burst" /\ h.at = t)
         THEN IF ~ok THEN [h EXCEPT !.phase = "off"]
              ELSE [h EXCEPT !.phase = IF h.count + 1 = b.capacity
                                       THEN "drained" ELSE "burst",
                             !.count = h.count + 1,
                             !.at = t]
    ELSE IF h.phase = "drained" /\ ~ok THEN h
    ELSE [h EXCEPT !.phase = "off"]

----------------------------------------------------------------------------
(* The clock and the calls on the bucket and the rate limiter *)

\* time passes between two calls
Tick(limit) ==
    /\ now < limit
    /\ now' = now + 1
    /\ last' = Last("tick", "", "", 0, NoWait)
    /\ UNCHANGED <<threads, bucketVars, cacheVars, chatVars, hist>>

\* bucket.consume(n)
Consume(n) ==
    /\ bucket' = ConsumeBucket(bucket, n, now)
    /\ last' = Last("consume", IF ConsumeOk(bucket, n, now) THEN "ok" ELSE "rejected",
                    "", n, NoWait)
    /\ hist' = BurstAfter(hist, bucket, n, ConsumeOk(bucket, n, now), now)
    /\ UNCHANGED <<threads, now, requests_per_minute, cacheVars, chatVars>>

\* bucket.time_until_available(n)
TimeUntilAvailableCall(n) ==
    /\ bucket' = Refill(bucket, now)
    /\ last' = Last("time_until_available", "", "", n,
                    TimeUntilAvailable(bucket, n, now))
    /\ UNCHANGED <<threads, now, requests_per_minute, cacheVars, chatVars, hist>>

\* p / q rounded down
RoundDown(p, q) == p \div q

\* p / q rounded to the nearest integer, a tie going to the even one
RoundHalfEven(p, q) ==
    LET f == p \div q
        r == p % q
    IN  IF 2 * r < q THEN f
        ELSE IF 2 * r > q THEN f + 1
        ELSE IF f % 2 = 0 THEN f ELSE f + 1

\* the tenths of a second printed for a wait of wait[1] / wait[2] ticks
WaitTenths(wait) == RoundHalfEven(600 * wait[1], wait[2] * TokUnit)

\* f"{wait_time:.1f}"
FormatOneDecimal(wait) ==
    ToString(WaitTenths(wait) \div 10) \o "." \o ToString(WaitTenths(wait) % 10)

\* the message check_rate_limit builds
RateLimitMessage(rpm, wait) ==
    "Rate limit exceeded. " \o ToString(rpm)
      \o " requests per minute allowed. Try again in "
      \o FormatOneDecimal(wait) \o " seconds."

\* RateLimitError(message, 429)
RateLimitError(message, status_code) ==
    [type |-> "RateLimitError", status_code |-> status_code, message |-> message]

\* what check_rate_limit raises on bucket b at clock reading t
CheckRateLimitError(b, rpm, t) ==
    IF ConsumeOk(b, 1, t) THEN NoError
    ELSE RateLimitError(
           RateLimitMessage(rpm, TimeUntilAvailable(ConsumeBucket(b, 1, t), 1, t)),
           429)

\* a check_rate_limit that admits without taking the token
CheckRateLimitBucketFree(b, t) == Refill(b, t)

\* the bucket after RateLimiter.check_rate_limit() at clock reading t:
\* consume(1) and, when it fails, time_until_available(1), which refills again
CheckRateLimitBucket(b, t) ==
    IF ConsumeOk(b, 1, t) THEN ConsumeBucket(b, 1, t)
    ELSE Refill(ConsumeBucket(b, 1, t), t)

\* RateLimiter.check_rate_limit()
CheckRateLimitCall ==
    /\ bucket' = CheckRateLimitBucket(bucket, now)
    /\ last' = IF ConsumeOk(bucket, 1, now)
               THEN Last("check_rate_limit", "ok", "", 1, NoWait)
               ELSE [Last("check_rate_limit", "RateLimitError", "", 429,
                          TimeUntilAvailable(ConsumeBucket(bucket, 1, now), 1, now))
                     EXCEPT !.error = CheckRateLimitError(bucket, requests_per_minute,
                                                          now)]
    /\ UNCHANGED <<threads, now, requests_per_minute, cacheVars, chatVars>>

\* check_rate_limit(), the burst history kept
CheckRateLimit ==
    /\ CheckRateLimitCall
    /\ hist' = BurstAfter(hist, bucket, 1, ConsumeOk(bucket, 1, now), now)

\* int(tokens): the whole tokens of a count kept in units, rounded towards zero
IntOfTokens(units) ==
    IF units >= 0 THEN units \div TokUnit ELSE -((-units) \div TokUnit)

\* get_status as it would be if reading the status drew on the budget
GetStatusConsuming ==
    /\ bucket' = ConsumeBucket(bucket, 1, now)
    /\ last' = Last("get_status", "", "", IntOfTokens(Refill(bucket, now).tokens),
                    TimeUntilAvailable(Refill(bucket, now), 1, now))
    /\ UNCHANGED <<threads, now, requests_per_minute, cacheVars, chatVars, hist>>

\* RateLimiter.get_status(): n is available_tokens, int(tokens)
GetStatus ==
    /\ bucket' = Refill(Refill(bucket, now), now)
    /\ last' = Last("get_status", "", "", IntOfTokens(Refill(bucket, now).tokens),
                    TimeUntilAvailable(Refill(bucket, now), 1, now))
    /\ UNCHANGED <<threads, now, requests_per_minute, cacheVars, chatVars, hist>>

\* a TokenBucket of any capacity and rate, built at time 0, behind a limiter
InitBucket ==
    /\ now = 0
    /\ \E c \in 1..MaxCapacity, r \in 1..MaxRate :
          /\ bucket = TokenBucket(c, r, 0)
          /\ requests_per_minute = c
    /\ cache = <<>>
    /\ max_size = 1
    /\ ttl_seconds = 1
    /\ hits = 0
    /\ misses = 0
    /\ memory = <<>>
    /\ database = <<>>
    /\ last = Last("init", "", "", 0, NoWait)
    /\ hist = InitHist
    /\ threads = NoThreads

NextBucket ==
    \/ Tick(MaxTime)
    \/ \E n \in 1..(bucket.capacity + 1) : Consume(n)
    \/ \E n \in 1..(bucket.capacity + 1) : TimeUntilAvailableCall(n)
    \/ CheckRateLimit
    \/ GetStatus

SpecBucket == InitBucket /\ [][NextBucket]_vars

----------------------------------------------------------------------------
(* Claims on the bucket *)

\* C1: after every consume, time_until_available and get_status call, interleaved
\* with forward time advances, the token count is between 0 and the capacity.
BucketBounded ==
    /\ bucket.tokens >= 0
    /\ bucket.tokens <= bucket.capacity * TokUnit

\* C1 witness: a drained bucket was refilled by elapsed time up to its capacity
BucketRefilledToCapacity ==
    /\ hist.phase = "drained"
    /\ last.op = "get_status"
    /\ bucket.last_refill > hist.at
    /\ bucket.tokens = bucket.capacity * TokUnit

\* a consume(1), made directly or by check_rate_limit, was the step taken
IsConsumeOne(l) ==
    \/ l.op = "consume" /\ l.n = 1
    \/ l.op = "check_rate_limit"

\* C2: a fresh bucket of capacity C admits C consecutive consume(1) calls made at
\* one instant, rejects the next, and rejects every consume(1) made less than
\* 1 / refill_rate after the bucket was emptied (and admits the first one made
\* at or after that).
BurstThenThrottle ==
    [][IsConsumeOne(last') =>
         /\ (hist.phase = "fresh" \/ (hist.phase = "burst" /\ hist.at = now'))
               => last'.outcome = "ok"
         /\ hist.phase = "drained"
               => (last'.outcome = "ok"
                     <=> (now' - hist.at) * bucket.refill_rate >= TokUnit)]_vars

\* C2 witness: a bucket of capacity 2 was emptied by its burst and a later
\* consume(1), made before a token was refilled, was rejected
BurstRejectedAfterDrain ==
    /\ hist.phase = "drained"
    /\ bucket.capacity = 2
    /\ now > hist.at
    /\ IsConsumeOne(last)
    /\ last.outcome # "ok"


----------------------------------------------------------------------------------------------------------------------------------------
(* History of the calls on the cache.                                      *)
(* inserted: the <<prompt, model, context>> triples ever put; puts: the    *)
(* pairs <<triple, value>> of the latest put of each triple whose entry    *)
(* has been stored ever since (both kept only when track is set).          *)
(* run, hitKey, valid: the keys put one after another into an empty cache, *)
(* the one key then hit by a get when the cache was full, and whether the  *)
(* calls since the cache was empty were only these.                        *)

KeyOfTriple(tr) == GenerateKey(tr[1], tr[2], tr[3])

LivePuts(ps, c) == {pv \in ps : HasKey(c, KeyOfTriple(pv[1]))}

\* the run is over: some other call was made
RunBroken(h) == [h EXCEPT !.run = <<>>, !.hitKey = "", !.valid = FALSE]

HistAfterGet(h, c, c2, max, key, hit) ==
    LET h1 == [h EXCEPT !.puts = LivePuts(h.puts, c2)]
    IN  IF ~h.valid THEN h1
        ELSE IF h.run = <<>> /\ c = <<>> THEN h1
        ELSE IF hit /\ Len(h.run) = max /\ h.hitKey = "" /\ Len(c2) = Len(c)
        THEN [h1 EXCEPT !.hitKey = key]
        ELSE RunBroken(h1)

HistAfterPut(h, c, c2, max, tr, value) ==
    LET h1 == IF h.track
              THEN [h EXCEPT !.inserted = h.inserted \cup {tr},
                             !.puts = LivePuts({pv \in h.puts : pv[1] # tr}
                                                  \cup {<<tr, value>>}, c2)]
              ELSE h
    IN  IF ~h.valid THEN h1
        ELSE IF ~HasKey(c, KeyOfTriple(tr)) /\ Len(h.run) <= max
        THEN [h1 EXCEPT !.run = Append(h.run, KeyOfTriple(tr))]
        ELSE RunBroken(h1)

HistAfterClear(h) ==
    [h EXCEPT !.puts = {}, !.run = <<>>, !.hitKey = "", !.valid = TRUE]

HistAfterStats(h, c, c2) ==
    LET h1 == [h EXCEPT !.puts = LivePuts(h.puts, c2)]
    IN  IF h.valid /\ Len(c2) # Len(c) THEN RunBroken(h1) ELSE h1

----------------------------------------------------------------------------
(* The calls on the cache *)

\* texts whose keys collide: "a|" \o "|" \o "" = "a" \o "|" \o "|"
CacheTexts == {"a", "a|"}
CacheModels == {"", "|"}
CacheContexts == {""}
CacheTriples == CacheTexts \X CacheModels \X CacheContexts
CacheValues == {"x", "y"}

\* texts with a key each
LruTriples == {<<"a", "m", "">>, <<"b", "m", "">>, <<"c", "m", "">>}
LruValues == {"x"}

\* cache.get(prompt, model, context); the clock advances by d between the
\* cleanup and the expiry test of the entry found
GetCall(tr, d, limit) ==
    LET key == KeyOfTriple(tr)
        c1 == CleanupExpired(cache, ttl_seconds, now)
        hit == GetHit(cache, ttl_seconds, key, now, now + d)
        c2 == GetCache(cache, ttl_seconds, key, now, now + d)
    IN  /\ now + d <= limit
        /\ d > 0 => HasKey(c1, key)
        /\ now' = now + d
        /\ cache' = c2
        /\ hits' = IF hit THEN hits + 1 ELSE hits
        /\ misses' = IF hit THEN misses ELSE misses + 1
        /\ last' = WithArgs(Last("get", IF hit THEN "hit" ELSE "miss",
                                 IF hit THEN GetValue(c1, key) ELSE "", 0, NoWait),
                            hist, tr)
        /\ UNCHANGED <<threads, bucketVars, max_size, ttl_seconds, chatVars>>

\* cache.get while the model keeps its bounds: at most MaxGets calls, and an
\* access_count within MaxAccess
Get(tr, d, limit) ==
    LET key == KeyOfTriple(tr)
        c1 == CleanupExpired(cache, ttl_seconds, now)
        hit == GetHit(cache, ttl_seconds, key, now, now + d)
        c2 == GetCache(cache, ttl_seconds, key, now, now + d)
    IN  /\ hits + misses < MaxGets
        /\ hit => EntryOf(c1, key).access_count < MaxAccess
        /\ GetCall(tr, d, limit)
        /\ hist' = HistAfterGet(hist, cache, c2, max_size, key, hit)

\* cache.put(prompt, value, model, context)
Put(tr, value) ==
    LET key == KeyOfTriple(tr)
        c2 == PutCache(cache, max_size, key, value, now)
    IN  /\ HasKey(cache, key) => EntryOf(cache, key).access_count < MaxAccess
        /\ cache' = c2
        /\ last' = WithArgs(Last("put",
                                 IF HasKey(cache, key) THEN "updated"
                                 ELSE IF Len(cache) + 1 > Len(c2) THEN "evicted"
                                 ELSE "inserted",
                                 "", 0, NoWait),
                            hist, tr)
        /\ hist' = HistAfterPut(hist, cache, c2, max_size, tr, value)
        /\ UNCHANGED <<threads, now, bucketVars, max_size, ttl_seconds, hits, misses, chatVars>>

\* cache.clear()
ClearCall ==
    /\ cache' = <<>>
    /\ hits' = 0
    /\ misses' = 0
    /\ last' = Last("clear", "", "", 0, NoWait)
    /\ UNCHANGED <<threads, now, bucketVars, max_size, ttl_seconds, chatVars>>

\* cache.clear(), after which the history of the calls starts again
Clear ==
    /\ ClearCall
    /\ hist' = HistAfterClear(hist)

\* cache.get_stats(): n is the size reported
GetStats ==
    /\ cache' = CleanupExpired(cache, ttl_seconds, now)
    /\ last' = Last("get_stats", "", "", Len(cache'), NoWait)
    /\ hist' = HistAfterStats(hist, cache, cache')
    /\ UNCHANGED <<threads, now, bucketVars, max_size, ttl_seconds, hits, misses, chatVars>>

\* cache.get_size()
GetSize ==
    /\ cache' = CleanupExpired(cache, ttl_seconds, now)
    /\ last' = Last("get_size", "", "", Len(cache'), NoWait)
    /\ hist' = HistAfterStats(hist, cache, cache')
    /\ UNCHANGED <<threads, now, bucketVars, max_size, ttl_seconds, hits, misses, chatVars>>

\* an empty LRUCacheWithTTL(max_size, ttl_seconds)
InitCache ==
    /\ now = 0
    /\ bucket = RateLimiter(1, 0)
    /\ requests_per_minute = 1
    /\ cache = <<>>
    /\ max_size \in 1..MaxCacheSize
    /\ ttl_seconds \in 1..MaxTtl
    /\ hits = 0
    /\ misses = 0
    /\ memory = <<>>
    /\ database = <<>>
    /\ last = Last("init", "", "", 0, NoWait)
    /\ hist = InitHist
    /\ threads = NoThreads

NextCache ==
    \/ Tick(MaxCacheTime)
    \/ \E tr \in LruTriples, d \in 0..1 : Get(tr, d, MaxCacheTime)
    \/ \E tr \in LruTriples, v \in LruValues : Put(tr, v)
    \/ Clear
    \/ GetStats
    \/ GetSize

SpecCache == InitCache /\ [][NextCache]_vars

\* the same cache called with texts that hold the separator
InitKeys ==
    /\ now = 0
    /\ bucket = RateLimiter(1, 0)
    /\ requests_per_minute = 1
    /\ cache = <<>>
    /\ max_size \in 1..MaxCacheSize
    /\ ttl_seconds \in 1..MaxTtl
    /\ hits = 0
    /\ misses = 0
    /\ memory = <<>>
    /\ database = <<>>
    /\ last = Last("init", "", "", 0, NoWait)
    /\ hist = [InitHist EXCEPT !.track = TRUE]
    /\ threads = NoThreads

NextKeys ==
    \/ Tick(MaxCacheTime)
    \/ \E tr \in CacheTriples, d \in 0..1 : Get(tr, d, MaxCacheTime)
    \/ \E tr \in CacheTriples, v \in CacheValues : Put(tr, v)
    \/ Clear

SpecKeys == InitKeys /\ [][NextKeys]_vars

\* C10: after every get, put, clear and get_stats call the cache stores at most
\* max_size entries.
SizeBounded == Len(cache) <= max_size

\* C10 witness: a put into a full cache evicted an entry and left the cache full
PutEvictedAtCapacity ==
    /\ last.op = "put"
    /\ last.outcome = "evicted"
    /\ Len(cache) = max_size


----------------------------------------------------------------------------
(* ChatbotWithMemory *)

ModelName == "m"
Prompts == {"hi", "bye"}
Responses == {"hello"}
UpstreamFails == "<fails>"

\* a message of chat_memory: HumanMessage is role "user", AIMessage "assistant"
Message(role, content) == [role |-> role, content |-> content]

\* "|".join(f"{role}:{msg.content}" for msg in messages)
RECURSIVE Context(_)
Context(msgs) ==
    IF msgs = <<>> THEN ""
    ELSE IF Len(msgs) = 1 THEN msgs[1].role \o ":" \o msgs[1].content
    ELSE msgs[1].role \o ":" \o msgs[1].content \o "|" \o Context(Tail(msgs))

\* a truncation that keeps the oldest 8 messages
TruncateKeepOldest(msgs) ==
    IF Len(msgs) > MemoryLimit THEN SubSeq(msgs, 1, MemoryLimit) ELSE msgs

\* a truncation that keeps one message less than the limit
TruncateOneLess(msgs) ==
    IF Len(msgs) > MemoryLimit
    THEN SubSeq(msgs, Len(msgs) - MemoryLimit + 2, Len(msgs))
    ELSE msgs

\* all_messages[-8:] when there are more than 8
Truncate(msgs) ==
    IF Len(msgs) > MemoryLimit
    THEN SubSeq(msgs, Len(msgs) - MemoryLimit + 1, Len(msgs))
    ELSE msgs

\* estimate_tokens
EstimateTokens(text) == Len(text) \div 4 + 1

\* the row log_chat_turn inserts
ChatRow(prompt, response, was_cached, t) ==
    [prompt |-> prompt, response |-> response,
     tokens_used |-> EstimateTokens(prompt) + EstimateTokens(response),
     model_name |-> ModelName, was_cached |-> was_cached, timestamp |-> t]

\* how chat() ends: hit is the result of the cache lookup, admitted that of
\* check_rate_limit, up what the model returns, dbok whether the row is stored.
\* "hit" and "miss" return the response, "RateLimitError" re-raises it, the
\* others raise RuntimeError("Chat failed: ...")
ChatOutcome(hit, admitted, up, dbok) ==
    IF hit THEN (IF dbok THEN "hit" ELSE "log_failed_hit")
    ELSE IF ~admitted THEN "RateLimitError"
    ELSE IF up = UpstreamFails THEN "upstream_failed"
    ELSE IF dbok THEN "miss" ELSE "log_failed_miss"

\* the turn was appended to the memory before chat() ended
TurnMade(outcome) == outcome \in {"hit", "log_failed_hit", "miss", "log_failed_miss"}

\* a chat that checks the rate limit before it looks into the cache
ChatBucketBeforeLookup(b, hit, t) == CheckRateLimitBucket(b, t)

\* a chat that asks the limiter a second time after it was admitted
ChatBucketAskTwice(b, hit, t) ==
    IF hit THEN b ELSE CheckRateLimitBucket(CheckRateLimitBucket(b, t), t)

\* the bucket after chat(): check_rate_limit is called on a cache miss only
ChatBucket(b, hit, t) == IF hit THEN b ELSE CheckRateLimitBucket(b, t)

\* a chat that stores the response (none, on a failure) before it is admitted
ChatCachePutFirst(c, max, ttl, key, value, outcome, t1, t2, t3) ==
    PutCache(GetCache(c, ttl, key, t1, t2), max, key, value, t3)

\* the cache after chat(): the lookup at t1, t2 and, after a successful model
\* call, the put at t3
ChatCache(c, max, ttl, key, value, outcome, t1, t2, t3) ==
    IF outcome \in {"miss", "log_failed_miss"}
    THEN PutCache(GetCache(c, ttl, key, t1, t2), max, key, value, t3)
    ELSE GetCache(c, ttl, key, t1, t2)

\* a chat that appends the user message before the model is called
ChatMemoryUserFirst(mem, prompt, value, outcome) ==
    IF TurnMade(outcome)
    THEN Truncate(Append(Append(mem, Message("user", prompt)),
                         Message("assistant", value)))
    ELSE Append(mem, Message("user", prompt))

\* the memory after chat()
ChatMemory(mem, prompt, value, outcome) ==
    IF TurnMade(outcome)
    THEN Truncate(Append(Append(mem, Message("user", prompt)),
                         Message("assistant", value)))
    ELSE mem

\* a chat that logs every turn as served from the cache
ChatDatabaseAllCached(db, prompt, value, outcome, t) ==
    IF outcome \in {"hit", "miss"} THEN Append(db, ChatRow(prompt, value, TRUE, t))
    ELSE db

\* the chat_history table after chat()
ChatDatabase(db, prompt, value, outcome, t) ==
    IF outcome = "hit" THEN Append(db, ChatRow(prompt, value, TRUE, t))
    ELSE IF outcome = "miss" THEN Append(db, ChatRow(prompt, value, FALSE, t))
    ELSE db

\* a chat that wraps every exception, the limiter's too, into RuntimeError
ChatErrorAllWrapped(outcome, raised) ==
    IF outcome \in {"hit", "miss"} THEN NoError
    ELSE [type |-> "RuntimeError", status_code |-> 0,
          message |-> "Chat failed: " \o outcome]

\* what chat() raises: the limiter's error as it is (raise e), anything else
\* as RuntimeError(f"Chat failed: {str(e)}")
ChatError(outcome, raised) ==
    IF outcome \in {"hit", "miss"} THEN NoError
    ELSE IF outcome = "RateLimitError" THEN raised
    ELSE [type |-> "RuntimeError", status_code |-> 0,
          message |-> "Chat failed: " \o outcome]

\* what chat() returns: the response, or nothing when it raises
ChatReturn(outcome, value) == IF outcome \in {"hit", "miss"} THEN value ELSE ""

\* chatbot.chat(prompt).  d: the clock's advance inside cache.get; du: the time
\* the model call takes; up: what the model returns; dbok: whether
\* log_chat_turn succeeds
ChatCall(prompt, d, du, up, dbok) ==
    LET context == Context(memory)
        key == GenerateKey(prompt, ModelName, context)
        c1 == CleanupExpired(cache, ttl_seconds, now)
        t2 == now + d
        hit == GetHit(cache, ttl_seconds, key, now, t2)
        admitted == ~hit /\ ConsumeOk(bucket, 1, t2)
        called == admitted
        t3 == IF called THEN t2 + du ELSE t2
        outcome == ChatOutcome(hit, admitted, up, dbok)
        value == IF hit THEN GetValue(c1, key)
                 ELSE IF called /\ up # UpstreamFails THEN up ELSE ""
    IN  /\ d > 0 => HasKey(c1, key)
        /\ du > 0 => called
        /\ up # UpstreamFails => called
        /\ ~dbok => TurnMade(outcome)
        /\ now' = t3
        /\ hits' = IF hit THEN hits + 1 ELSE hits
        /\ misses' = IF hit THEN misses ELSE misses + 1
        /\ bucket' = ChatBucket(bucket, hit, t2)
        /\ cache' = ChatCache(cache, max_size, ttl_seconds, key, value, outcome,
                              now, t2, t3)
        /\ memory' = ChatMemory(memory, prompt, value, outcome)
        /\ database' = ChatDatabase(database, prompt, value, outcome, t3)
        /\ last' = [Last("chat", outcome, ChatReturn(outcome, value), 0,
                         IF outcome = "RateLimitError"
                         THEN TimeUntilAvailable(ConsumeBucket(bucket, 1, t2), 1, t2)
                         ELSE NoWait)
                    EXCEPT !.args = <<prompt>>,
                           !.error = ChatError(outcome,
                                       CheckRateLimitError(bucket,
                                                           requests_per_minute, t2)),
                           !.dropped = Len(memory) + (IF TurnMade(outcome) THEN 2 ELSE 0)
                                         - Len(memory')]
        /\ UNCHANGED <<threads, requests_per_minute, max_size, ttl_seconds>>

\* chatbot.chat(prompt) when no history of the calls is kept
ChatStep(prompt, d, du, up, dbok) ==
    /\ ChatCall(prompt, d, du, up, dbok)
    /\ UNCHANGED hist

\* chat() while the model keeps its bounds: at most MaxChats calls, and the
\* clock within MaxCacheTime
Chat(prompt, d, du, up, dbok) ==
    /\ hits + misses < MaxChats
    /\ now + d + du <= MaxCacheTime
    /\ ChatStep(prompt, d, du, up, dbok)

\* chatbot.clear_memory()
ClearMemory ==
    /\ memory' = <<>>
    /\ last' = Last("clear_memory", "", "", 0, NoWait)
    /\ UNCHANGED <<threads, now, bucketVars, cacheVars, database, hist>>

\* no scenario of direct calls is followed while the chatbot runs
NoHist == [InitHist EXCEPT !.phase = "off", !.valid = FALSE]

\* a new ChatbotWithMemory(requests_per_minute) over a new limiter and an
\* empty cache
Init ==
    /\ now = 0
    /\ requests_per_minute \in 1..MaxRpm
    /\ bucket = RateLimiter(requests_per_minute, 0)
    /\ cache = <<>>
    /\ max_size \in 1..MaxCacheSize
    /\ ttl_seconds \in 1..MaxTtl
    /\ hits = 0
    /\ misses = 0
    /\ memory = <<>>
    /\ database = <<>>
    /\ last = Last("init", "", "", 0, NoWait)
    /\ hist = NoHist
    /\ threads = NoThreads

Next ==
    \/ Tick(MaxCacheTime)
    \/ \E prompt \in Prompts, d \in 0..1, du \in 0..1,
          up \in Responses \cup {UpstreamFails}, dbok \in BOOLEAN :
          Chat(prompt, d, du, up, dbok)
    \/ ClearMemory

Spec == Init /\ [][Next]_vars

----------------------------------------------------------------------------
(* Claims on chat() *)

\* the step is a chat() call that ended with outcome o
ChatEnded(l, o) == l.op = "chat" /\ l.outcome = o

\* c2 is c without some of its entries that are expired at clock reading t:
\* nothing is added, nothing else is removed, no entry is changed or moved
Purged(c, c2, ttl, t) ==
    /\ c2 = SelectSeq(c, LAMBDA e : \E i \in 1..Len(c2) : c2[i] = e)
    /\ \A i \in 1..Len(c) :
          (\A j \in 1..Len(c2) : c2[j] # c[i]) => IsExpired(c[i], ttl, t)

\* C3: a chat() answered from the cache does not call the rate limiter: the
\* bucket is left as it was, and no RateLimitError is raised, also when the
\* bucket is empty.
HitSkipsRateLimiter ==
    [][(last'.op = "chat" /\ hits' = hits + 1) =>
         /\ bucket' = bucket
         /\ last'.outcome \in {"hit", "log_failed_hit"}]_vars

\* C3 witness: a chat was answered from the cache while the bucket, refilled to
\* the present, held less than one token
HitOnEmptyBucket ==
    /\ ChatEnded(last, "hit")
    /\ ~ConsumeOk(bucket, 1, now)

\* C4 as stated: a chat() rejected by the rate limiter leaves the cache size, the
\* number of log records and the context length as they were.
RateLimitedLeavesSizes ==
    [][ChatEnded(last', "RateLimitError") =>
         /\ Len(cache') = Len(cache)
         /\ Len(database') = Len(database)
         /\ Len(memory') = Len(memory)]_vars

\* C4 amended: a chat() rejected by the rate limiter leaves the log records and
\* the context as they were and adds or changes no cache entry; the cache can
\* only lose entries that had expired, which the lookup removes.
RateLimitedLeavesLiveEntries ==
    [][ChatEnded(last', "RateLimitError") =>
         /\ Purged(cache, cache', ttl_seconds, now')
         /\ database' = database
         /\ memory' = memory]_vars

\* C4 witness: a chat was rejected while the cache, the log and the context
\* were not empty
RateLimitedWithState ==
    /\ ChatEnded(last, "RateLimitError")
    /\ cache # <<>>
    /\ database # <<>>
    /\ memory # <<>>

\* C5 as stated: a chat() whose model call fails leaves the context, the cache
\* contents and the log exactly as they were.
UpstreamFailureLeavesAll ==
    [][ChatEnded(last', "upstream_failed") =>
         /\ cache' = cache
         /\ database' = database
         /\ memory' = memory]_vars

\* C5 amended: a chat() whose model call fails raises the chat-failure error,
\* leaves the context and the log exactly as they were and inserts or changes no
\* cache entry; the cache can only lose entries that had expired, which the
\* lookup before the call removes.
UpstreamFailureLeavesLiveEntries ==
    [][ChatEnded(last', "upstream_failed") =>
         /\ Purged(cache, cache', ttl_seconds, now')
         /\ database' = database
         /\ memory' = memory]_vars

\* C5 witness: the model call failed while the cache, the log and the context
\* were not empty
UpstreamFailedWithState ==
    /\ ChatEnded(last, "upstream_failed")
    /\ cache # <<>>
    /\ database # <<>>
    /\ memory # <<>>

\* C6: chat(p) called right after a chat(p) that completed as a cache miss is a
\* cache hit: the bucket is left as it was and a second log record is written
\* with was_cached true, the first having was_cached false.
RepeatIsCacheHit ==
    [][(/\ ChatEnded(last, "miss")
        /\ last'.op = "chat"
        /\ last'.args = last.args) =>
         /\ last'.outcome = "hit"
         /\ bucket' = bucket
         /\ Len(database') = Len(database) + 1
         /\ database'[Len(database')].was_cached
         /\ ~database[Len(database)].was_cached]_vars

----------------------------------------------------------------------------
(* Claims on the cache *)

\* C7: get(p, m, c) after put(p, v, m, c), with no expiry or eviction of the entry
\* in between, returns v; and get on a triple that was never inserted is a miss.
CacheDeterminism ==
    [][last'.op = "get" =>
         /\ \A v \in CacheValues :
               (/\ <<last'.args, v>> \in hist.puts
                /\ ~IsExpired(EntryOf(cache, KeyOfTriple(last'.args)), ttl_seconds, now'))
                  => (last'.outcome = "hit" /\ last'.ret = v)
         /\ last'.args \notin hist.inserted => last'.outcome = "miss"]_vars

\* C8 as stated: a lookup of a stored entry is a hit exactly when it is made
\* strictly before T + ttl, so that a lookup at elapsed = ttl is a miss.
TtlExpiredAtBoundary ==
    [][\A tr \in LruTriples, d \in 0..1 :
         (Get(tr, d, MaxCacheTime) /\ HasKey(cache, KeyOfTriple(tr))) =>
            (last'.outcome = "hit"
               <=> now' - EntryOf(cache, KeyOfTriple(tr)).timestamp < ttl_seconds)]_vars

\* C8 amended: a lookup of an entry stored at time T is a hit at any time up to
\* and including T + ttl and a miss at any time after T + ttl: at elapsed = ttl
\* the entry is still live.
TtlLiveAtBoundary ==
    [][\A tr \in LruTriples, d \in 0..1 :
         (Get(tr, d, MaxCacheTime) /\ HasKey(cache, KeyOfTriple(tr))) =>
            (last'.outcome = "hit"
               <=> now' - EntryOf(cache, KeyOfTriple(tr)).timestamp <= ttl_seconds)]_vars

\* C8 witness: a get hit an entry whose age was exactly ttl_seconds
HitAtTtl ==
    /\ last.op = "get"
    /\ last.outcome = "hit"
    /\ Len(cache) > 0
    /\ now - cache[Len(cache)].timestamp = ttl_seconds

\* the keys of the run, and the least recently used key of the full cache
\* other than the key the get hit
RunKeys == {hist.run[i] : i \in 1..Len(hist.run)}

OtherIndexes == {i \in 1..max_size : hist.run[i] # hist.hitKey}

LruOther == hist.run[CHOOSE i \in OtherIndexes : \A j \in OtherIndexes : i <= j]

\* the run is complete: max_size + 1 distinct keys were put into an empty cache,
\* with at most one get, a hit made when the cache was full
RunComplete == hist.valid /\ Len(hist.run) = max_size + 1

----------------------------------------------------------------------------
(* One long conversation: the limiter admits every call, no time passes *)

InitMemory ==
    /\ now = 0
    /\ requests_per_minute = MaxTurns
    /\ bucket = RateLimiter(requests_per_minute, 0)
    /\ cache = <<>>
    /\ max_size = 1
    /\ ttl_seconds = 1
    /\ hits = 0
    /\ misses = 0
    /\ memory = <<>>
    /\ database = <<>>
    /\ last = Last("init", "", "", 0, NoWait)
    /\ hist = NoHist
    /\ threads = NoThreads

NextMemory ==
    \/ \E prompt \in Prompts, up \in Responses \cup {UpstreamFails}, dbok \in BOOLEAN :
          /\ hits + misses < MaxTurns
          /\ ChatStep(prompt, 0, 0, up, dbok)
    \/ ClearMemory

SpecMemory == InitMemory /\ [][NextMemory]_vars

\* C11: after every chat() that appended its turn (cache hit or miss) the
\* context holds at most 8 messages: the turn just made comes last and before
\* it come the most recent earlier messages, in their order, as many as fit.
ContextBound ==
    [][(last'.op = "chat" /\ TurnMade(last'.outcome)) =>
         LET n == Len(memory')
             kept == n - 2
         IN  /\ n = Min(Len(memory) + 2, MemoryLimit)
             /\ memory'[n - 1] = Message("user", last'.args[1])
             /\ memory'[n].role = "assistant"
             /\ last'.outcome \in {"hit", "miss"}
                   => memory'[n].content = last'.ret
             /\ \A i \in 1..kept : memory'[i] = memory[Len(memory) - kept + i]]_vars

\* C11 witness: a chat() made with 8 messages in the context dropped the two
\* oldest
ContextTruncated ==
    /\ last.op = "chat"
    /\ last.dropped = 2
    /\ Len(memory) = MemoryLimit

----------------------------------------------------------------------------
(* A RateLimiter on its own *)

\* the limits tried; with 7 requests per minute a wait is not a whole number
\* of tenths of a second
LimiterRpms == {1, 2, 7}

InitLimiter ==
    /\ now = 0
    /\ requests_per_minute \in LimiterRpms
    /\ bucket = RateLimiter(requests_per_minute, 0)
    /\ cache = <<>>
    /\ max_size = 1
    /\ ttl_seconds = 1
    /\ hits = 0
    /\ misses = 0
    /\ memory = <<>>
    /\ database = <<>>
    /\ last = Last("init", "", "", 0, NoWait)
    /\ hist = NoHist
    /\ threads = NoThreads

NextLimiter ==
    \/ Tick(MaxTime)
    \/ CheckRateLimit
    \/ GetStatus

SpecLimiter == InitLimiter /\ [][NextLimiter]_vars

\* reading a message back: the digit a character stands for
IsDigit(c) == \E d \in 0..9 : ToString(d) = c
DigitOf(c) == CHOOSE d \in 0..9 : ToString(d) = c

\* the number written in text by the digits that end at position i
RECURSIVE NatEndingAt(_, _)
NatEndingAt(text, i) ==
    IF i = 0 \/ ~IsDigit(SubSeq(text, i, i)) THEN 0
    ELSE 10 * NatEndingAt(text, i - 1) + DigitOf(SubSeq(text, i, i))

\* the duration a message "... Try again in S.T seconds." carries, in tenths
RetryAfterTenths(message) ==
    LET e == Len(message) - Len(" seconds.")
    IN  10 * NatEndingAt(message, e - 2) + DigitOf(SubSeq(message, e, e))

\* check_rate_limit took a token when there was one and otherwise raised
\* RateLimitError with status 429 and a "Rate limit exceeded" message
CheckRateLimitRaises(b, b2, l, t) ==
    IF ConsumeOk(b, 1, t)
    THEN /\ b2.tokens = Refill(b, t).tokens - TokUnit
         /\ l.error = NoError
    ELSE /\ b2.tokens = Refill(b, t).tokens
         /\ l.error.type = "RateLimitError"
         /\ l.error.status_code = 429
         /\ SubSeq(l.error.message, 1, Len("Rate limit exceeded")) = "Rate limit exceeded"
         /\ l.wait = TimeUntilAvailable(Refill(b, t), 1, t)

\* C12 as stated: ... and the duration the error carries equals
\* time_until_available(1).
RetryAfterExact ==
    [][last'.op = "check_rate_limit" =>
         /\ CheckRateLimitRaises(bucket, bucket', last', now)
         /\ last'.outcome = "RateLimitError"
               => RetryAfterTenths(last'.error.message) * last'.wait[2] * TokUnit
                    = 600 * last'.wait[1]]_vars

\* C12 amended: check_rate_limit consumes one token when one is available and
\* otherwise raises RateLimitError with status_code 429 and a message that
\* contains "Rate limit exceeded" and names time_until_available(1) rounded to
\* a tenth of a second: the duration read from the message is within half a
\* tenth of it.
RetryAfterRounded ==
    [][last'.op = "check_rate_limit" =>
         /\ CheckRateLimitRaises(bucket, bucket', last', now)
         /\ last'.outcome = "RateLimitError"
               => LET q == last'.wait[2] * TokUnit
                      p == 600 * last'.wait[1]
                      m == RetryAfterTenths(last'.error.message) * q
                  IN  /\ 2 * (m - p) <= q
                      /\ 2 * (p - m) <= q]_vars

\* C12 witness: check_rate_limit raised for a wait that is not a whole number of
\* tenths of a second
RateLimitedWithRoundedWait ==
    /\ last.op = "check_rate_limit"
    /\ last.error.type = "RateLimitError"
    /\ (600 * last.wait[1]) % (last.wait[2] * TokUnit) # 0

----------------------------------------------------------------------------
(* Claims on the errors of chat() *)

\* C13: chat() lets the limiter's RateLimitError through as check_rate_limit
\* raised it (status_code 429), surfaces every other failure (of the model
\* call, of the log) as the generic RuntimeError, and returns no response when
\* it raises.
ErrorsSurfaced ==
    [][last'.op = "chat" =>
         /\ (hits' = hits /\ ~ConsumeOk(bucket, 1, now'))
               => /\ last'.error = CheckRateLimitError(bucket, requests_per_minute, now')
                  /\ last'.error.type = "RateLimitError"
                  /\ last'.error.status_code = 429
         /\ last'.outcome \in {"upstream_failed", "log_failed_hit", "log_failed_miss"}
               => last'.error.type = "RuntimeError"
         /\ last'.error = NoError <=> last'.outcome \in {"hit", "miss"}
         /\ last'.error # NoError => last'.ret = ""]_vars

\* C13 witness: a chat() ended with the limiter's error, status 429, and no
\* response
RateLimitErrorPropagated ==
    /\ last.op = "chat"
    /\ last.error.type = "RateLimitError"
    /\ last.error.status_code = 429
    /\ last.ret = ""

----------------------------------------------------------------------------
(* The HTTP endpoint POST /chat (src/src/api.py) *)

\* the status of the response: every exception of the handler's try block
\* becomes HTTPException(status_code=500, ...)
HttpStatus(error) == IF error = NoError THEN 200 ELSE 500

\* str(e): of a RateLimitError, whose args are (message, status_code), the
\* text of that pair; of a RuntimeError, its message
StrOfError(error) ==
    IF error.type = "RateLimitError"
    THEN "('" \o error.message \o "', " \o ToString(error.status_code) \o ")"
    ELSE error.message

\* HTTPException(status_code=500, detail=f"Chat error: {str(e)}")
HttpError(error) ==
    IF error = NoError THEN NoError
    ELSE [type |-> "HTTPException", status_code |-> HttpStatus(error),
          message |-> "Chat error: " \o StrOfError(error)]

\* the rows of db, those after the first n logged with the model of the request
RowsOfModel(db, n, model) ==
    [i \in 1..Len(db) |-> IF i > n THEN [db[i] EXCEPT !.model_name = model] ELSE db[i]]

\* chat_with_bot(request): a new ChatbotWithMemory, whose memory is empty, over
\* the limiter, the cache and the database of the process; get_cache_stats()
\* before chat() and, when chat() returned, after it.  n is the HTTP status.
ChatWithBotCall(prompt, model, d, du, up, dbok) ==
    LET c0 == CleanupExpired(cache, ttl_seconds, now)
        key == GenerateKey(prompt, model, Context(<<>>))
        t2 == now + d
        hit == GetHit(c0, ttl_seconds, key, now, t2)
        admitted == ~hit /\ ConsumeOk(bucket, 1, t2)
        t3 == IF admitted THEN t2 + du ELSE t2
        outcome == ChatOutcome(hit, admitted, up, dbok)
        value == IF hit THEN GetValue(c0, key)
                 ELSE IF admitted /\ up # UpstreamFails THEN up ELSE ""
        c3 == ChatCache(c0, max_size, ttl_seconds, key, value, outcome, now, t2, t3)
        error == ChatError(outcome, CheckRateLimitError(bucket, requests_per_minute, t2))
    IN  /\ hits + misses < MaxChats
        /\ now + d + du <= MaxCacheTime
        /\ d > 0 => HasKey(c0, key)
        /\ du > 0 => admitted
        /\ up # UpstreamFails => admitted
        /\ ~dbok => TurnMade(outcome)
        /\ now' = t3
        /\ hits' = IF hit THEN hits + 1 ELSE hits
        /\ misses' = IF hit THEN misses ELSE misses + 1
        /\ bucket' = ChatBucket(bucket, hit, t2)
        /\ cache' = IF error = NoError THEN CleanupExpired(c3, ttl_seconds, t3) ELSE c3
        /\ database' = RowsOfModel(ChatDatabase(database, prompt, value, outcome, t3),
                                 Len(database), model)
        /\ last' = [Last("POST /chat", outcome, ChatReturn(outcome, value),
                         HttpStatus(error), NoWait)
                    EXCEPT !.args = <<prompt>>, !.error = HttpError(error)]
        /\ UNCHANGED <<threads, requests_per_minute, max_size, ttl_seconds, memory>>

\* POST /chat {"message": prompt}: the request names no model
ChatWithBot(prompt, d, du, up, dbok) ==
    /\ ChatWithBotCall(prompt, ModelName, d, du, up, dbok)
    /\ UNCHANGED hist

NextApi ==
    \/ Tick(MaxCacheTime)
    \/ \E prompt \in Prompts, d \in 0..1, du \in 0..1,
          up \in Responses \cup {UpstreamFails}, dbok \in BOOLEAN :
          ChatWithBot(prompt, d, du, up, dbok)

SpecApi == Init /\ [][NextApi]_vars

\* C14: a request to POST /chat that the rate limiter rejects is answered with
\* status 429, not with the status of the other failures.
RateLimitedIs429 ==
    [][(last'.op = "POST /chat" /\ last'.outcome = "RateLimitError")
         => last'.n = 429]_vars

----------------------------------------------------------------------------
(* Claims on a failing log store *)

\* C15: when log_chat_turn fails in an exchange that was otherwise successful
\* (cache hit, or miss with a successful model call), chat() still returns the
\* response, and the context and cache updates of the exchange are kept.
LogFailureKeepsExchange ==
    [][(last'.op = "chat" /\ last'.outcome \in {"log_failed_hit", "log_failed_miss"}) =>
         LET n == Len(memory')
             key == GenerateKey(last'.args[1], ModelName, Context(memory))
         IN  /\ n >= 2
             /\ memory'[n - 1] = Message("user", last'.args[1])
             /\ memory'[n].role = "assistant"
             /\ HasKey(cache', key)
             /\ EntryOf(cache', key).value = memory'[n].content
             /\ last'.error = NoError
             /\ last'.ret = memory'[n].content]_vars

----------------------------------------------------------------------------
(* Concurrent consume(1) calls on one TokenBucket.  The class holds no     *)
(* lock, so a thread can be preempted between any two accesses to an       *)
(* attribute of the bucket; each step below is one such access.  A thread  *)
(* is [pc, t, x, calls, admitted]: t is its local now, x the value it is   *)
(* about to store.                                                         *)

RaceThreads == {1, 2}

IdleThread == [pc |-> "idle", t |-> 0, x |-> 0, calls |-> 0, admitted |-> 0]

\* consume(1) is entered; _refill reads the clock: now = time.time()
ConsumeBegin(i) ==
    /\ threads[i].pc = "idle"
    /\ threads[i].calls < MaxCalls
    /\ threads' = [threads EXCEPT ![i].pc = "refill_elapsed", ![i].t = now]
    /\ UNCHANGED <<now, bucketVars, cacheVars, chatVars, last, hist>>

\* elapsed = now - self.last_refill; tokens_to_add = elapsed * self.refill_rate
RefillElapsed(i) ==
    /\ threads[i].pc = "refill_elapsed"
    /\ threads' = [threads EXCEPT ![i].pc = "refill_load",
                                  ![i].x = (threads[i].t - bucket.last_refill)
                                             * bucket.refill_rate]
    /\ UNCHANGED <<now, bucketVars, cacheVars, chatVars, last, hist>>

\* min(self.capacity, self.tokens + tokens_to_add) is computed
RefillLoad(i) ==
    /\ threads[i].pc = "refill_load"
    /\ threads' = [threads EXCEPT ![i].pc = "refill_store",
                                  ![i].x = Min(bucket.capacity * TokUnit,
                                               bucket.tokens + threads[i].x)]
    /\ UNCHANGED <<now, bucketVars, cacheVars, chatVars, last, hist>>

\* self.tokens = ... is stored
RefillStore(i) ==
    /\ threads[i].pc = "refill_store"
    /\ bucket' = [bucket EXCEPT !.tokens = threads[i].x]
    /\ threads' = [threads EXCEPT ![i].pc = "refill_stamp"]
    /\ UNCHANGED <<now, requests_per_minute, cacheVars, chatVars, last, hist>>

\* self.last_refill = now
RefillStamp(i) ==
    /\ threads[i].pc = "refill_stamp"
    /\ bucket' = [bucket EXCEPT !.last_refill = threads[i].t]
    /\ threads' = [threads EXCEPT ![i].pc = "test"]
    /\ UNCHANGED <<now, requests_per_minute, cacheVars, chatVars, last, hist>>

\* if self.tokens >= tokens: ... else return False
ConsumeTest(i) ==
    /\ threads[i].pc = "test"
    /\ IF Enough(bucket, 1)
       THEN /\ threads' = [threads EXCEPT ![i].pc = "take_load"]
            /\ UNCHANGED last
       ELSE /\ threads' = [threads EXCEPT ![i].pc = "idle",
                                          ![i].calls = threads[i].calls + 1]
            /\ last' = Last("consume", "rejected", "", 1, NoWait)
    /\ UNCHANGED <<now, bucketVars, cacheVars, chatVars, hist>>

\* self.tokens -= tokens: the difference is computed
ConsumeLoad(i) ==
    /\ threads[i].pc = "take_load"
    /\ threads' = [threads EXCEPT ![i].pc = "take_store",
                                  ![i].x = bucket.tokens - TokUnit]
    /\ UNCHANGED <<now, bucketVars, cacheVars, chatVars, last, hist>>

\* self.tokens -= tokens: the difference is stored; return True
ConsumeStore(i) ==
    /\ threads[i].pc = "take_store"
    /\ bucket' = [bucket EXCEPT !.tokens = threads[i].x]
    /\ threads' = [threads EXCEPT ![i].pc = "idle",
                                  ![i].calls = threads[i].calls + 1,
                                  ![i].admitted = threads[i].admitted + 1]
    /\ last' = Last("consume", "ok", "", 1, NoWait)
    /\ UNCHANGED <<now, requests_per_minute, cacheVars, chatVars, hist>>

InitConsumeRace ==
    /\ now = 0
    /\ requests_per_minute \in 1..MaxRpm
    /\ bucket = RateLimiter(requests_per_minute, 0)
    /\ cache = <<>>
    /\ max_size = 1
    /\ ttl_seconds = 1
    /\ hits = 0
    /\ misses = 0
    /\ memory = <<>>
    /\ database = <<>>
    /\ last = Last("init", "", "", 0, NoWait)
    /\ hist = NoHist
    /\ threads = [i \in RaceThreads |-> IdleThread]

\* the calls are made at one instant: the clock does not advance
NextConsumeRace ==
    \E i \in RaceThreads :
          \/ ConsumeBegin(i)
          \/ RefillElapsed(i)
          \/ RefillLoad(i)
          \/ RefillStore(i)
          \/ RefillStamp(i)
          \/ ConsumeTest(i)
          \/ ConsumeLoad(i)
          \/ ConsumeStore(i)

SpecConsumeRace == InitConsumeRace /\ [][NextConsumeRace]_vars

\* the calls admitted so far
RECURSIVE SumAdmitted(_)
SumAdmitted(S) ==
    IF S = {} THEN 0
    ELSE LET i == CHOOSE j \in S : TRUE
         IN  threads[i].admitted + SumAdmitted(S \ {i})

\* C16: under any interleaving of concurrent calls consume behaves as an atomic
\* step: tokens is never negative and, while no time has passed, no more calls
\* are admitted from the full bucket than its capacity.
ConsumeAtomic ==
    /\ bucket.tokens >= 0
    /\ now = 0 => SumAdmitted(RaceThreads) <= bucket.capacity

----------------------------------------------------------------------------
(* Concurrent get and put calls on one LRUCacheWithTTL.  The class holds   *)
(* no lock; each step below is one operation on the OrderedDict or one     *)
(* access to a counter.  A thread is [pc, op, key, t, snap, pending,       *)
(* entry, x, calls, gets]: snap is the key order when its expiry scan      *)
(* began, pending the expired keys it still has to delete, entry the       *)
(* entry it read, x the counter value it is about to store, gets the get   *)
(* calls it has returned from.                                             *)

RaceKeys == {"a", "b"}
RaceValue == "x"
NoEntry == CacheEntry("", "", 0, 0)

IdleCacheThread ==
    [pc |-> "idle", op |-> "", key |-> "", t |-> 0, snap |-> <<>>,
     pending |-> <<>>, entry |-> NoEntry, x |-> 0, calls |-> 0, gets |-> 0]

\* OrderedDict.move_to_end(key)
MoveToEnd(c, key) == Append(DelKey(c, key), EntryOf(c, key))

\* self.cache[key] = entry for a key that is stored: the position is kept
ReplaceEntry(c, key, entry) ==
    [j \in 1..Len(c) |-> IF c[j].key = key THEN entry ELSE c[j]]

\* the exceptions of the dictionary
KeyError == [type |-> "KeyError", status_code |-> 0, message |-> ""]
MutatedError ==
    [type |-> "RuntimeError", status_code |-> 0,
     message |-> "OrderedDict mutated during iteration"]

\* the thread after its call ended; got: it returned from a get
Returned(th, got) ==
    [IdleCacheThread EXCEPT !.calls = th.calls + 1,
                            !.gets = th.gets + (IF got THEN 1 ELSE 0)]

\* one step of thread i: the cache, the counters, the thread and the call
\* that ended (none: lst is last)
CacheStep(i, c2, h2, m2, th2, lst) ==
    /\ cache' = c2
    /\ hits' = h2
    /\ misses' = m2
    /\ threads' = [threads EXCEPT ![i] = th2]
    /\ last' = lst
    /\ UNCHANGED <<now, bucketVars, max_size, ttl_seconds, chatVars, hist>>

\* the call of thread i raised err
CacheRaise(i, err) ==
    CacheStep(i, cache, hits, misses, Returned(threads[i], FALSE),
              [Last(threads[i].op, "raised", "", 0, NoWait) EXCEPT !.error = err])

\* get(key) is entered: _cleanup_expired reads the clock and starts to iterate
\* over self.cache.items()
GetBegin(i, key) ==
    /\ threads[i].pc = "idle"
    /\ threads[i].calls < MaxCalls
    /\ CacheStep(i, cache, hits, misses,
                 [threads[i] EXCEPT !.pc = "scan", !.op = "get", !.key = key,
                                    !.t = now, !.snap = KeysOf(cache)],
                 last)

\* the iteration goes on to its end: it raises when the dictionary was changed
\* since it began, and otherwise yields the expired keys
ScanEnd(i) ==
    LET th == threads[i]
        expired == KeysOf(SelectSeq(cache, LAMBDA e : IsExpired(e, ttl_seconds, th.t)))
    IN  /\ th.pc = "scan"
        /\ IF th.snap # <<>> /\ KeysOf(cache) # th.snap
           THEN CacheRaise(i, MutatedError)
           ELSE CacheStep(i, cache, hits, misses,
                          [th EXCEPT !.pc = IF expired = <<>> THEN "find" ELSE "purge",
                                     !.snap = <<>>, !.pending = expired],
                          last)

\* for key in expired_keys: del self.cache[key]
Purge(i) ==
    LET th == threads[i]
        k == Head(th.pending)
    IN  /\ th.pc = "purge"
        /\ IF ~HasKey(cache, k)
           THEN CacheRaise(i, KeyError)
           ELSE CacheStep(i, DelKey(cache, k), hits, misses,
                          [th EXCEPT !.pending = Tail(th.pending),
                                     !.pc = IF Tail(th.pending) = <<>> THEN "find"
                                            ELSE "purge"],
                          last)

\* if key in self.cache
Find(i) ==
    LET th == threads[i]
    IN  /\ th.pc = "find"
        /\ CacheStep(i, cache, hits, misses,
                     [th EXCEPT !.pc = IF HasKey(cache, th.key) THEN "load"
                                       ELSE "miss_load"],
                     last)

\* entry = self.cache[key]; if self._is_expired(entry)
Load(i) ==
    LET th == threads[i]
    IN  /\ th.pc = "load"
        /\ IF ~HasKey(cache, th.key)
           THEN CacheRaise(i, KeyError)
           ELSE CacheStep(i, cache, hits, misses,
                          [th EXCEPT !.entry = EntryOf(cache, th.key),
                                     !.pc = IF IsExpired(EntryOf(cache, th.key),
                                                         ttl_seconds, now)
                                            THEN "expire" ELSE "move"],
                          last)

\* del self.cache[key]
ExpireDel(i) ==
    LET th == threads[i]
    IN  /\ th.pc = "expire"
        /\ IF ~HasKey(cache, th.key)
           THEN CacheRaise(i, KeyError)
           ELSE CacheStep(i, DelKey(cache, th.key), hits, misses,
                          [th EXCEPT !.pc = "miss_load"], last)

\* self.misses += 1: the sum is computed
MissLoad(i) ==
    LET th == threads[i]
    IN  /\ th.pc = "miss_load"
        /\ CacheStep(i, cache, hits, misses,
                     [th EXCEPT !.pc = "miss_store", !.x = misses + 1], last)

\* self.misses += 1: the sum is stored; return None
MissStore(i) ==
    LET th == threads[i]
    IN  /\ th.pc = "miss_store"
        /\ CacheStep(i, cache, hits, th.x, Returned(th, TRUE),
                     Last("get", "miss", "", 0, NoWait))

\* self.cache.move_to_end(key); entry.access_count += 1, on the entry that was
\* read (which the dictionary holds no more when a put has replaced it)
Move(i) ==
    LET th == threads[i]
        moved == MoveToEnd(cache, th.key)
        same == EntryOf(cache, th.key) = th.entry
    IN  /\ th.pc = "move"
        /\ IF ~HasKey(cache, th.key)
           THEN CacheRaise(i, KeyError)
           ELSE CacheStep(i,
                          IF same
                          THEN ReplaceEntry(moved, th.key,
                                 [th.entry EXCEPT !.access_count = th.entry.access_count + 1])
                          ELSE moved,
                          hits, misses, [th EXCEPT !.pc = "hit_load"], last)

\* self.hits += 1: the sum is computed
HitLoad(i) ==
    LET th == threads[i]
    IN  /\ th.pc = "hit_load"
        /\ CacheStep(i, cache, hits, misses,
                     [th EXCEPT !.pc = "hit_store", !.x = hits + 1], last)

\* self.hits += 1: the sum is stored; return entry.value
HitStore(i) ==
    LET th == threads[i]
    IN  /\ th.pc = "hit_store"
        /\ CacheStep(i, cache, th.x, misses, Returned(th, TRUE),
                     Last("get", "hit", th.entry.value, 0, NoWait))

\* put(key, value) is entered: current_time = time.time(); if key in self.cache
PutBegin(i, key) ==
    /\ threads[i].pc = "idle"
    /\ threads[i].calls < MaxCalls
    /\ CacheStep(i, cache, hits, misses,
                 [threads[i] EXCEPT !.pc = IF HasKey(cache, key) THEN "put_update"
                                           ELSE "put_insert",
                                    !.op = "put", !.key = key, !.t = now],
                 last)

\* self.cache[key] = CacheEntry(value, current_time, self.cache[key].access_count + 1)
PutUpdate(i) ==
    LET th == threads[i]
    IN  /\ th.pc = "put_update"
        /\ IF ~HasKey(cache, th.key)
           THEN CacheRaise(i, KeyError)
           ELSE CacheStep(i,
                          ReplaceEntry(cache, th.key,
                            CacheEntry(th.key, RaceValue, th.t,
                                       EntryOf(cache, th.key).access_count + 1)),
                          hits, misses, [th EXCEPT !.pc = "put_move"], last)

\* self.cache.move_to_end(key) of the update branch; return
PutMove(i) ==
    LET th == threads[i]
    IN  /\ th.pc = "put_move"
        /\ IF ~HasKey(cache, th.key)
           THEN CacheRaise(i, KeyError)
           ELSE CacheStep(i, MoveToEnd(cache, th.key), hits, misses,
                          Returned(th, FALSE),
                          Last("put", "updated", "", 0, NoWait))

\* self.cache[key] = CacheEntry(value, current_time)
PutInsert(i) ==
    LET th == threads[i]
        entry == CacheEntry(th.key, RaceValue, th.t, 0)
    IN  /\ th.pc = "put_insert"
        /\ CacheStep(i,
                     IF HasKey(cache, th.key) THEN ReplaceEntry(cache, th.key, entry)
                     ELSE Append(cache, entry),
                     hits, misses, [th EXCEPT !.pc = "put_move_new"], last)

\* self.cache.move_to_end(key) of the insert branch
PutMoveNew(i) ==
    LET th == threads[i]
    IN  /\ th.pc = "put_move_new"
        /\ IF ~HasKey(cache, th.key)
           THEN CacheRaise(i, KeyError)
           ELSE CacheStep(i, MoveToEnd(cache, th.key), hits, misses,
                          [th EXCEPT !.pc = "put_len"], last)

\* if len(self.cache) > self.max_size
PutLen(i) ==
    LET th == threads[i]
    IN  /\ th.pc = "put_len"
        /\ IF Len(cache) > max_size
           THEN CacheStep(i, cache, hits, misses, [th EXCEPT !.pc = "put_pop"], last)
           ELSE CacheStep(i, cache, hits, misses, Returned(th, FALSE),
                          Last("put", "inserted", "", 0, NoWait))

\* self.cache.popitem(last=False); return
PutPop(i) ==
    LET th == threads[i]
    IN  /\ th.pc = "put_pop"
        /\ IF cache = <<>>
           THEN CacheRaise(i, KeyError)
           ELSE CacheStep(i, Tail(cache), hits, misses, Returned(th, FALSE),
                          Last("put", "evicted", "", 0, NoWait))

\* time passes while the calls run
CacheTick ==
    /\ now < MaxCacheTime
    /\ now' = now + 1
    /\ UNCHANGED <<threads, bucketVars, cacheVars, chatVars, last, hist>>

InitCacheRace ==
    /\ now = 0
    /\ bucket = RateLimiter(1, 0)
    /\ requests_per_minute = 1
    /\ cache = <<>>
    /\ max_size = 1
    /\ ttl_seconds = 1
    /\ hits = 0
    /\ misses = 0
    /\ memory = <<>>
    /\ database = <<>>
    /\ last = Last("init", "", "", 0, NoWait)
    /\ hist = NoHist
    /\ threads = [i \in RaceThreads |-> IdleCacheThread]

NextCacheRace ==
    \/ CacheTick
    \/ \E i \in RaceThreads :
          \/ \E key \in RaceKeys : GetBegin(i, key)
          \/ ScanEnd(i)
          \/ Purge(i)
          \/ Find(i)
          \/ Load(i)
          \/ ExpireDel(i)
          \/ MissLoad(i)
          \/ MissStore(i)
          \/ Move(i)
          \/ HitLoad(i)
          \/ HitStore(i)
          \/ \E key \in RaceKeys : PutBegin(i, key)
          \/ PutUpdate(i)
          \/ PutMove(i)
          \/ PutInsert(i)
          \/ PutMoveNew(i)
          \/ PutLen(i)
          \/ PutPop(i)

SpecCacheRace == InitCacheRace /\ [][NextCacheRace]_vars

\* the get calls that have returned
RECURSIVE SumGets(_)
SumGets(S) ==
    IF S = {} THEN 0
    ELSE LET i == CHOOSE j \in S : TRUE
         IN  threads[i].gets + SumGets(S \ {i})

\* the number of stored entries never exceeds max_size
RaceSizeBounded == Len(cache) <= max_size

\* no call fails because the map was changed during its expiry scan
RaceNoScanFailure == last.error # MutatedError

\* when no call is in progress, hits + misses is the number of get calls made
RaceCountsExact ==
    (\A i \in RaceThreads : threads[i].pc = "idle")
       => hits + misses = SumGets(RaceThreads)

\* C17: under any interleaving of concurrent get and put calls each call
\* behaves as an atomic step: the entry count never exceeds max_size, no call
\* fails because another call changed the map during its expiry scan, and
\* hits + misses equals the number of get calls made.
CacheCallsAtomic ==
    /\ RaceSizeBounded
    /\ RaceNoScanFailure
    /\ RaceCountsExact

----------------------------------------------------------------------------
(* Two concurrent chat() calls on one chatbot.  chat() holds no lock while *)
(* it changes chat_memory.messages; each step below is one operation on    *)
(* that list.  The part of chat() before the appends (lookup, admission,   *)
(* model call, put) is taken in one step.  A thread is [pc, prompt, value, *)
(* hit, x, base]: x is the slice it is about to assign, base the context   *)
(* before the two calls.                                                   *)

\* the context after four turns
FourTurns ==
    <<Message("user", "hi"), Message("assistant", "hello"),
      Message("user", "bye"), Message("assistant", "hello"),
      Message("user", "hi"), Message("assistant", "hello"),
      Message("user", "bye"), Message("assistant", "hello")>>

IdleChatThread(base) ==
    [pc |-> "idle", prompt |-> "", value |-> "", hit |-> FALSE, x |-> <<>>,
     base |-> base]

\* chat(prompt) up to the first append: context, cache.get, check_rate_limit,
\* llm.invoke, cache.put
ChatRaceBegin(i, prompt, up) ==
    LET key == GenerateKey(prompt, ModelName, Context(memory))
        hit == GetHit(cache, ttl_seconds, key, now, now)
        admitted == ~hit /\ ConsumeOk(bucket, 1, now)
        outcome == ChatOutcome(hit, admitted, up, TRUE)
        value == IF hit THEN GetValue(cache, key)
                 ELSE IF admitted /\ up # UpstreamFails THEN up ELSE ""
    IN  /\ threads[i].pc = "idle"
        /\ up # UpstreamFails => admitted
        /\ hits' = IF hit THEN hits + 1 ELSE hits
        /\ misses' = IF hit THEN misses ELSE misses + 1
        /\ bucket' = ChatBucket(bucket, hit, now)
        /\ cache' = ChatCache(cache, max_size, ttl_seconds, key, value, outcome,
                              now, now, now)
        /\ threads' = [threads EXCEPT
                         ![i].pc = IF TurnMade(outcome) THEN "add_user" ELSE "done",
                         ![i].prompt = prompt, ![i].value = value, ![i].hit = hit]
        /\ last' = IF TurnMade(outcome) THEN last
                   ELSE [Last("chat", outcome, "", 0, NoWait)
                         EXCEPT !.args = <<prompt>>,
                                !.error = ChatError(outcome,
                                            CheckRateLimitError(bucket,
                                              requests_per_minute, now))]
        /\ UNCHANGED <<now, requests_per_minute, max_size, ttl_seconds, chatVars, hist>>

\* self.memory.chat_memory.add_user_message(user_input)
AddUser(i) ==
    /\ threads[i].pc = "add_user"
    /\ memory' = Append(memory, Message("user", threads[i].prompt))
    /\ threads' = [threads EXCEPT ![i].pc = "add_ai"]
    /\ UNCHANGED <<now, bucketVars, cacheVars, database, last, hist>>

\* self.memory.chat_memory.add_ai_message(response)
AddAi(i) ==
    /\ threads[i].pc = "add_ai"
    /\ memory' = Append(memory, Message("assistant", threads[i].value))
    /\ threads' = [threads EXCEPT ![i].pc = "trunc_test"]
    /\ UNCHANGED <<now, bucketVars, cacheVars, database, last, hist>>

\* log_chat_turn(...) and return: the end of a chat() of thread i
ChatRaceEnd(i, mem) ==
    /\ memory' = mem
    /\ database' = Append(database,
                          ChatRow(threads[i].prompt, threads[i].value,
                                  threads[i].hit, now))
    /\ threads' = [threads EXCEPT ![i].pc = "done", ![i].x = <<>>]
    /\ last' = [Last("chat", IF threads[i].hit THEN "hit" ELSE "miss",
                     threads[i].value, 0, NoWait)
                EXCEPT !.args = <<threads[i].prompt>>]
    /\ UNCHANGED <<now, bucketVars, cacheVars, hist>>

\* all_messages = self.memory.chat_memory.messages; if len(all_messages) > 8
TruncTest(i) ==
    /\ threads[i].pc = "trunc_test"
    /\ IF Len(memory) > MemoryLimit
       THEN /\ threads' = [threads EXCEPT ![i].pc = "trunc_slice"]
            /\ UNCHANGED <<now, bucketVars, cacheVars, chatVars, last, hist>>
       ELSE ChatRaceEnd(i, memory)

\* all_messages[-8:] is computed
TruncSlice(i) ==
    /\ threads[i].pc = "trunc_slice"
    /\ threads' = [threads EXCEPT ![i].pc = "trunc_store",
                                  ![i].x = SubSeq(memory, Len(memory) - MemoryLimit + 1,
                                                  Len(memory))]
    /\ UNCHANGED <<now, bucketVars, cacheVars, chatVars, last, hist>>

\* self.memory.chat_memory.messages = ... is assigned
TruncStore(i) ==
    /\ threads[i].pc = "trunc_store"
    /\ ChatRaceEnd(i, threads[i].x)

InitChatRace ==
    /\ now = 0
    /\ requests_per_minute = 2
    /\ bucket = RateLimiter(requests_per_minute, 0)
    /\ cache = <<>>
    /\ max_size \in 1..MaxCacheSize
    /\ ttl_seconds = 1
    /\ hits = 0
    /\ misses = 0
    /\ memory \in {<<>>, FourTurns}
    /\ database = <<>>
    /\ last = Last("init", "", "", 0, NoWait)
    /\ hist = NoHist
    /\ threads = [i \in RaceThreads |-> IdleChatThread(memory)]

NextChatRace ==
    \E i \in RaceThreads :
       \/ \E prompt \in Prompts, up \in Responses \cup {UpstreamFails} :
             ChatRaceBegin(i, prompt, up)
       \/ AddUser(i)
       \/ AddAi(i)
       \/ TruncTest(i)
       \/ TruncSlice(i)
       \/ TruncStore(i)

SpecChatRace == InitChatRace /\ [][NextChatRace]_vars

\* the two messages of the exchange of thread i
TurnOf(i) ==
    <<Message("user", threads[i].prompt), Message("assistant", threads[i].value)>>

\* both calls have completed an exchange
BothCompleted ==
    \A i \in RaceThreads : threads[i].pc = "done" /\ threads[i].value # ""

\* C18: once two concurrent chat() calls have completed, the context is the one
\* that the two exchanges, made one after the other in some order, leave: both
\* turns, each an adjacent user/assistant pair, truncated oldest first to 8.
ContextLinearizable ==
    BothCompleted =>
       \E i, j \in RaceThreads :
          /\ i # j
          /\ memory = Truncate(Truncate(threads[i].base \o TurnOf(i)) \o TurnOf(j))

----------------------------------------------------------------------------
(* call_llm(prompt, model, timeout) with a model that answers when it      *)
(* likes.  The call is [pc, prompt, timeout, started, value]: between the  *)
(* start of llm.invoke and its answer the pc is "invoking".  The timeout   *)
(* argument is kept in the call; no statement of call_llm or chat() reads  *)
(* it, so no step of the call depends on it.                               *)

NoCall == [pc |-> "idle", prompt |-> "", timeout |-> 0, started |-> 0, value |-> ""]

\* call_llm(prompt, timeout=timeout): a new chatbot, whose memory is empty;
\* chat() up to llm.invoke.  A hit and a rejection end the call at once.
CallLlm(prompt, timeout) ==
    LET key == GenerateKey(prompt, ModelName, Context(<<>>))
        hit == GetHit(cache, ttl_seconds, key, now, now)
        admitted == ~hit /\ ConsumeOk(bucket, 1, now)
        outcome == ChatOutcome(hit, admitted, UpstreamFails, TRUE)
        value == IF hit THEN GetValue(cache, key) ELSE ""
    IN  /\ threads.pc = "idle"
        /\ hits + misses < MaxChats
        /\ hits' = IF hit THEN hits + 1 ELSE hits
        /\ misses' = IF hit THEN misses ELSE misses + 1
        /\ bucket' = ChatBucket(bucket, hit, now)
        /\ cache' = GetCache(cache, ttl_seconds, key, now, now)
        /\ database' = ChatDatabase(database, prompt, value, outcome, now)
        /\ threads' = IF admitted
                      THEN [pc |-> "invoking", prompt |-> prompt, timeout |-> timeout,
                            started |-> now, value |-> ""]
                      ELSE NoCall
        /\ last' = IF admitted THEN last
                   ELSE [Last("call_llm", outcome, ChatReturn(outcome, value), 0, NoWait)
                         EXCEPT !.args = <<prompt>>,
                                !.error = ChatError(outcome,
                                            CheckRateLimitError(bucket,
                                              requests_per_minute, now))]
        /\ UNCHANGED <<now, requests_per_minute, max_size, ttl_seconds, memory, hist>>

\* the model answers, or fails: llm.invoke returns or raises
UpstreamAnswers(up) ==
    /\ threads.pc = "invoking"
    /\ threads' = [threads EXCEPT !.pc = "answered", !.value = up]
    /\ UNCHANGED <<now, bucketVars, cacheVars, chatVars, last, hist>>

\* chat() after llm.invoke: cache.put, the log and the return, or the
\* RuntimeError
CallLlmFinish ==
    LET prompt == threads.prompt
        key == GenerateKey(prompt, ModelName, Context(<<>>))
        outcome == ChatOutcome(FALSE, TRUE, threads.value, TRUE)
        value == IF threads.value = UpstreamFails THEN "" ELSE threads.value
    IN  /\ threads.pc = "answered"
        /\ cache' = IF outcome = "miss"
                    THEN PutCache(cache, max_size, key, value, now) ELSE cache
        /\ database' = ChatDatabase(database, prompt, value, outcome, now)
        /\ threads' = NoCall
        /\ last' = [Last("call_llm", outcome, ChatReturn(outcome, value), 0, NoWait)
                    EXCEPT !.args = <<prompt>>,
                           !.error = ChatError(outcome, NoError)]
        /\ UNCHANGED <<now, bucketVars, max_size, ttl_seconds, hits, misses, memory, hist>>

\* time passes, also while a call waits for the model
UpstreamTick ==
    /\ now < MaxTime
    /\ now' = now + 1
    /\ UNCHANGED <<threads, bucketVars, cacheVars, chatVars, last, hist>>

InitUpstream ==
    /\ now = 0
    /\ requests_per_minute \in 1..MaxRpm
    /\ bucket = RateLimiter(requests_per_minute, 0)
    /\ cache = <<>>
    /\ max_size = 1
    /\ ttl_seconds \in 1..MaxTtl
    /\ hits = 0
    /\ misses = 0
    /\ memory = <<>>
    /\ database = <<>>
    /\ last = Last("init", "", "", 0, NoWait)
    /\ hist = NoHist
    /\ threads = NoCall

NextUpstream ==
    \/ UpstreamTick
    \/ \E prompt \in Prompts, timeout \in 1..MaxTimeout : CallLlm(prompt, timeout)
    \/ \E up \in Responses \cup {UpstreamFails} : UpstreamAnswers(up)
    \/ CallLlmFinish

\* the clock runs and the call takes its own steps; nothing makes the model
\* answer
SpecUpstream ==
    /\ InitUpstream
    /\ [][NextUpstream]_vars
    /\ WF_vars(UpstreamTick)
    /\ WF_vars(CallLlmFinish)

\* C19: every call eventually returns a response or an error: a call that waits
\* for the model does not wait forever, because its timeout ends it.
CallEventuallyEnds == (threads.pc = "invoking") ~> (threads.pc = "idle")

----------------------------------------------------------------------------
(* The state a completed miss leaves.                                      *)

\* the cache maps (prompt, model, context of msgs) to r
CacheMaps(c, prompt, msgs, r) ==
    LET key == GenerateKey(prompt, ModelName, Context(msgs))
    IN  HasKey(c, key) /\ GetValue(c, key) = r

\* msgs ends with (user, prompt), (assistant, r)
EndsWithTurn(msgs, prompt, r) ==
    /\ Len(msgs) >= 2
    /\ msgs[Len(msgs) - 1] = Message("user", prompt)
    /\ msgs[Len(msgs)] = Message("assistant", r)

\* db2 is db and one more row, which is not a cached one
OneNewUncachedRow(db, db2, prompt, r) ==
    /\ Len(db2) = Len(db) + 1
    /\ SubSeq(db2, 1, Len(db)) = db
    /\ db2[Len(db2)].prompt = prompt
    /\ db2[Len(db2)].response = r
    /\ db2[Len(db2)].was_cached = FALSE

----------------------------------------------------------------------------
(* A conversation that repeats itself while time passes: the same prompt   *)
(* gets the same answer, so that once the context is full, the context     *)
(* before a turn is the context before the previous one and the turn is    *)
(* served from the cache.                                                  *)

RepeatedPrompts == {"hi"}

NextRepeat ==
    \/ Tick(MaxCacheTime)
    \/ \E prompt \in RepeatedPrompts, up \in Responses \cup {UpstreamFails},
          dbok \in BOOLEAN :
          /\ hits + misses < MaxTurns
          /\ ChatStep(prompt, 0, 0, up, dbok)
    \/ ClearMemory

SpecRepeat == InitMemory /\ [][NextRepeat]_vars

\* db2 is db and one more row, which is a cached one
OneNewCachedRow(db, db2, prompt, v) ==
    /\ Len(db2) = Len(db) + 1
    /\ SubSeq(db2, 1, Len(db)) = db
    /\ db2[Len(db2)].prompt = prompt
    /\ db2[Len(db2)].response = v
    /\ db2[Len(db2)].was_cached = TRUE

----------------------------------------------------------------------------
(* The context string of the cache key.  The conversation may hold texts   *)
(* with the characters the context string is built with; hist.histories    *)
(* keeps the message lists whose context string went into a cache key.     *)

FingerprintPrompts == {"x", "x|assistant:y|user:x"}
FingerprintResponses == {"y"}

\* chatbot.chat(prompt), the message list it builds its key from remembered
ChatTracked(prompt, up) ==
    /\ hits + misses < MaxTurns
    /\ ChatCall(prompt, 0, 0, up, TRUE)
    /\ hist' = [hist EXCEPT !.histories = @ \cup {memory}]

NextFingerprint ==
    \/ \E prompt \in FingerprintPrompts,
          up \in FingerprintResponses \cup {UpstreamFails} : ChatTracked(prompt, up)
    \/ ClearMemory

SpecFingerprint == InitMemory /\ [][NextFingerprint]_vars

\* C22: two conversation histories that differ (in a role, a text, the order or
\* the number of messages) have different context strings and, for the same
\* prompt and model, different cache keys: the history a chat() builds its key
\* from never has the context string of a different history used before.
FingerprintInjective ==
    [][last'.op = "chat" =>
         \A h \in hist.histories :
            h # memory =>
               /\ Context(h) # Context(memory)
               /\ GenerateKey(last'.args[1], ModelName, Context(h))
                     # GenerateKey(last'.args[1], ModelName, Context(memory))]_vars

----------------------------------------------------------------------------
(* ChatDatabase called directly.  The table is the sequence of its rows in *)
(* insertion order; AUTOINCREMENT gives the i-th row inserted the id i.    *)

\* the row of the i-th insertion as a query returns it
HistoryRow(db, i) == [id |-> i] @@ db[i]

\* ORDER BY timestamp DESC: the orders in which the rows may come.  Rows
\* with equal timestamps come in an order the query does not determine
OrderedByTimestampDesc(db) ==
    {p \in [1..Len(db) -> 1..Len(db)] :
        /\ \A i, j \in 1..Len(db) : i # j => p[i] # p[j]
        /\ \A i, j \in 1..Len(db) :
              i < j => db[p[i]].timestamp >= db[p[j]].timestamp}

\* db.log_chat_turn(prompt, response, tokens, model_name, was_cached); n is
\* the lastrowid returned
LogChatTurn(prompt, response, was_cached) ==
    /\ Len(database) < MaxRows
    /\ database' = Append(database, ChatRow(prompt, response, was_cached, now))
    /\ last' = Last("log_chat_turn", "", "", Len(database) + 1, NoWait)
    /\ UNCHANGED <<threads, now, bucketVars, cacheVars, memory, hist>>

\* db.get_recent_history(limit): n is the limit
GetRecentHistory(limit) ==
    \E p \in OrderedByTimestampDesc(database) :
        /\ last' = [Last("get_recent_history", "", "", limit, NoWait)
                    EXCEPT !.rows = [i \in 1..Min(limit, Len(database))
                                       |-> HistoryRow(database, p[i])]]
        /\ UNCHANGED <<threads, now, bucketVars, cacheVars, chatVars, hist>>

NextHistory ==
    \/ Tick(MaxCacheTime)
    \/ \E prompt \in Prompts, response \in Responses, was_cached \in BOOLEAN :
          LogChatTurn(prompt, response, was_cached)
    \/ \E limit \in 0..(MaxRows + 1) : GetRecentHistory(limit)

\* a new ChatDatabase over an empty file
SpecHistory == InitMemory /\ [][NextHistory]_vars

\* C23: get_recent_history(limit) returns min(limit, number of rows) rows, the
\* row logged last first, then the one logged before it, and so on, also when
\* rows carry the same timestamp.
RecentFirst ==
    last.op = "get_recent_history" =>
        /\ Len(last.rows) = Min(last.n, Len(database))
        /\ \A i \in 1..Len(last.rows) :
              last.rows[i] = HistoryRow(database, Len(database) + 1 - i)

----------------------------------------------------------------------------
(* What consume(n) takes *)

\* the tokens of bucket b once the time up to t is accounted for
Refilled(b, t) ==
    Min(b.capacity * TokUnit, b.tokens + (t - b.last_refill) * b.refill_rate)

\* C24: a consume(n) that fails removes no tokens: it leaves the tokens the lazy
\* refill gives for the elapsed time (the tokens there were, when no time has
\* elapsed); a consume(n) that succeeds removes exactly n tokens from the
\* refilled amount.
ConsumeFrame ==
    [][last'.op = "consume" =>
         LET n == last'.n
         IN  /\ last'.outcome \in {"ok", "rejected"}
             /\ last'.outcome = "ok" <=> Refilled(bucket, now) >= n * TokUnit
             /\ last'.outcome = "rejected"
                   => /\ bucket'.tokens = Refilled(bucket, now)
                      /\ now = bucket.last_refill => bucket'.tokens = bucket.tokens
             /\ last'.outcome = "ok"
                   => bucket'.tokens = Refilled(bucket, now) - n * TokUnit
             /\ bucket'.capacity = bucket.capacity
             /\ bucket'.refill_rate = bucket.refill_rate]_vars

\* C24 witness: a consume(2) failed on a bucket of capacity 2 partly refilled
\* since it was emptied, and left it what the refill gave
ConsumeFailedAfterRefill ==
    /\ last.op = "consume"
    /\ last.outcome = "rejected"
    /\ last.n = 2
    /\ bucket.capacity = 2
    /\ bucket.last_refill > 0
    /\ bucket.tokens > 0
    /\ bucket.tokens < 2 * TokUnit

----------------------------------------------------------------------------
(* What a drained bucket accrues.  hist.phase = "drained" says that the    *)
(* bucket was emptied at hist.at and that nothing was consumed since.      *)

\* C25: after a bucket is drained its tokens accrue at refill_rate per elapsed
\* time up to the capacity and no further: a consume(n) with n <= capacity
\* succeeds once n / refill_rate has elapsed (and not before), and however long
\* the bucket was idle no more than capacity tokens can be consumed at one
\* instant.
DrainedAccrual ==
    [][(hist.phase = "drained" /\ last'.op = "consume") =>
         LET n == last'.n
             accrued == (now - hist.at) * bucket.refill_rate
         IN  /\ n <= bucket.capacity
                   => (last'.outcome = "ok" <=> accrued >= n * TokUnit)
             /\ n > bucket.capacity => last'.outcome = "rejected"
             /\ last'.outcome = "ok"
                   => bucket'.tokens
                        = Min(bucket.capacity * TokUnit, accrued) - n * TokUnit
             /\ last'.outcome = "rejected"
                   => bucket'.tokens = Min(bucket.capacity * TokUnit, accrued)]_vars

\* C25 witness: a bucket of capacity 2, emptied by its burst and then idle for
\* longer than it takes to fill, gave consume(2) its two tokens and no more
DrainedIdleThenFull ==
    /\ last.op = "consume"
    /\ last.n = 2
    /\ last.outcome = "ok"
    /\ bucket.capacity = 2
    /\ hist.count = bucket.capacity
    /\ (now - hist.at) * bucket.refill_rate > bucket.capacity * TokUnit
    /\ bucket.last_refill = now
    /\ bucket.tokens = 0

----------------------------------------------------------------------------
(* The bucket under a clock that is set back.  time.time() is the system   *)
(* clock: it follows every adjustment of it, also one to an earlier time.  *)

\* the system clock is set back to t
ClockSetBack(t) ==
    /\ t < now
    /\ now' = t
    /\ last' = Last("clock_set_back", "", "", 0, NoWait)
    /\ UNCHANGED <<threads, bucketVars, cacheVars, chatVars, hist>>

NextClock ==
    \/ Tick(MaxTime)
    \/ \E t \in 0..MaxTime : ClockSetBack(t)
    \/ \E n \in 1..(bucket.capacity + 1) : Consume(n)
    \/ \E n \in 1..(bucket.capacity + 1) : TimeUntilAvailableCall(n)
    \/ GetStatus

SpecClock == InitBucket /\ [][NextClock]_vars

\* the call made is one of the bucket's, each of which refills first
IsBucketCall(l) == l.op \in {"consume", "time_until_available", "get_status"}

\* C26: a call that reads a clock value smaller than the one the previous call
\* read does not lose tokens by its refill and never leaves the token count
\* negative: a call that consumes nothing leaves at least the tokens there were.
RefillSafeWhenClockSetBack ==
    [][(IsBucketCall(last') /\ now < bucket.last_refill) =>
         /\ bucket'.tokens >= 0
         /\ (last'.op # "consume" \/ last'.outcome = "rejected")
               => bucket'.tokens >= bucket.tokens]_vars

----------------------------------------------------------------------------
(* The steps of one call, taken one by one *)

\* the step is the cache lookup a call starts with
IsLookup == hits' + misses' # hits + misses

\* C27: within one call the rate limiter is consulted at most once and the model
\* is invoked at most once: the step that looks into the cache and, on a miss,
\* asks the limiter takes at most one token (none on a hit), a rejected
\* call ends there with the limiter's error and no token taken, no other step of
\* the call touches the bucket, and a call whose model call has answered or
\* failed ends without invoking the model again.
NoRetryInsideChat ==
    [][/\ IsLookup
            => /\ threads.pc = "idle"
               /\ hits' + misses' = hits + misses + 1
               /\ threads'.pc \in {"idle", "invoking"}
               /\ hits' = hits + 1 => bucket' = bucket
               /\ misses' = misses + 1
                     => bucket'.tokens >= Refilled(bucket, now) - TokUnit
               /\ threads'.pc = "invoking"
                     => /\ misses' = misses + 1
                        /\ bucket'.tokens = Refilled(bucket, now) - TokUnit
               /\ (threads'.pc = "idle" /\ misses' = misses + 1)
                     => /\ last'.outcome = "RateLimitError"
                        /\ last'.error.status_code = 429
                        /\ bucket'.tokens = Refilled(bucket, now)
                        /\ bucket'.tokens < TokUnit
       /\ threads.pc = "invoking"
            => /\ bucket' = bucket
               /\ threads'.pc \in {"invoking", "answered"}
       /\ threads.pc = "answered"
            => /\ bucket' = bucket
               /\ threads'.pc \in {"answered", "idle"}
               /\ (threads'.pc = "idle" /\ threads.value = UpstreamFails)
                     => /\ last'.outcome = "upstream_failed"
                        /\ last'.error.type = "RuntimeError"]_vars

\* C27 witness: a call whose model call failed has ended with the error, one
\* token taken from a bucket of two
UpstreamFailedOnce ==
    /\ threads.pc = "idle"
    /\ last.op = "call_llm"
    /\ last.outcome = "upstream_failed"
    /\ hits + misses = 1
    /\ bucket.capacity = 2
    /\ bucket.last_refill = 0
    /\ bucket.tokens = TokUnit

----------------------------------------------------------------------------
(* chat() statement by statement, one call at a time.  The call in         *)
(* progress is [pc, prompt, key, value, done]: pc is the statement to run  *)
(* next, key the cache key built from the context the call found, done the *)
(* statements the call has run, each with its result.                      *)

IdleChat == [pc |-> "idle", prompt |-> "", key |-> "", value |-> "", done |-> <<>>]

\* a chat that goes on to cache.put after llm.invoke raised
NextStatementIgnoringFailure(pc, result) ==
    IF pc = "get" THEN (IF result = "hit" THEN "add_messages" ELSE "check_rate_limit")
    ELSE IF pc = "check_rate_limit" THEN (IF result = "ok" THEN "invoke" ELSE "idle")
    ELSE IF pc = "invoke" THEN "put"
    ELSE IF pc = "put" THEN "add_messages"
    ELSE IF pc = "add_messages" THEN "log"
    ELSE "idle"

\* the statement chat() runs after statement pc ended with result; "idle" when
\* chat() returns or raises
NextStatement(pc, result) ==
    IF pc = "get" THEN (IF result = "hit" THEN "add_messages" ELSE "check_rate_limit")
    ELSE IF pc = "check_rate_limit" THEN (IF result = "ok" THEN "invoke" ELSE "idle")
    ELSE IF pc = "invoke" THEN (IF result = "ok" THEN "put" ELSE "idle")
    ELSE IF pc = "put" THEN "add_messages"
    ELSE IF pc = "add_messages" THEN "log"
    ELSE "idle"

\* the call after statement pc ended with result
Ran(th, result) ==
    [th EXCEPT !.pc = NextStatement(th.pc, result),
               !.done = Append(th.done, <<th.pc, result>>)]

\* chat(prompt) is entered: the context string and the key are built
StatementsBegin(prompt) ==
    /\ threads.pc = "idle"
    /\ hits + misses < MaxChats
    /\ threads' = [pc |-> "get", prompt |-> prompt,
                   key |-> GenerateKey(prompt, ModelName, Context(memory)),
                   value |-> "", done |-> <<>>]
    /\ UNCHANGED <<now, bucketVars, cacheVars, chatVars, last, hist>>

\* cached_response = self.cache.get(...)
StatementGet ==
    LET hit == GetHit(cache, ttl_seconds, threads.key, now, now)
        c1 == CleanupExpired(cache, ttl_seconds, now)
    IN  /\ threads.pc = "get"
        /\ cache' = GetCache(cache, ttl_seconds, threads.key, now, now)
        /\ hits' = IF hit THEN hits + 1 ELSE hits
        /\ misses' = IF hit THEN misses ELSE misses + 1
        /\ threads' = [Ran(threads, IF hit THEN "hit" ELSE "miss")
                         EXCEPT !.value = IF hit THEN GetValue(c1, threads.key) ELSE ""]
        /\ UNCHANGED <<now, bucketVars, max_size, ttl_seconds, chatVars, last, hist>>

\* self.rate_limiter.check_rate_limit()
StatementCheckRateLimit ==
    LET ok == ConsumeOk(bucket, 1, now)
    IN  /\ threads.pc = "check_rate_limit"
        /\ bucket' = CheckRateLimitBucket(bucket, now)
        /\ threads' = Ran(threads, IF ok THEN "ok" ELSE "rejected")
        /\ last' = IF ok THEN last
                   ELSE [Last("chat", "RateLimitError", "", 0, NoWait)
                         EXCEPT !.args = <<threads.prompt>>,
                                !.error = CheckRateLimitError(bucket,
                                            requests_per_minute, now)]
        /\ UNCHANGED <<now, requests_per_minute, cacheVars, chatVars, hist>>

\* response = self.llm.invoke(messages)
StatementInvoke(up) ==
    /\ threads.pc = "invoke"
    /\ threads' = [Ran(threads, IF up = UpstreamFails THEN "failed" ELSE "ok")
                     EXCEPT !.value = IF up = UpstreamFails THEN "" ELSE up]
    /\ last' = IF up # UpstreamFails THEN last
               ELSE [Last("chat", "upstream_failed", "", 0, NoWait)
                     EXCEPT !.args = <<threads.prompt>>,
                            !.error = ChatError("upstream_failed", NoError)]
    /\ UNCHANGED <<now, bucketVars, cacheVars, chatVars, hist>>

\* self.cache.put(user_input, response_content, self.model_name, context)
StatementPut ==
    /\ threads.pc = "put"
    /\ cache' = PutCache(cache, max_size, threads.key, threads.value, now)
    /\ threads' = Ran(threads, "ok")
    /\ UNCHANGED <<now, bucketVars, max_size, ttl_seconds, hits, misses, chatVars,
                   last, hist>>

\* add_user_message, add_ai_message and the cut to the last 8 messages
StatementAddMessages ==
    /\ threads.pc = "add_messages"
    /\ memory' = Truncate(memory \o <<Message("user", threads.prompt),
                                       Message("assistant", threads.value)>>)
    /\ threads' = Ran(threads, "ok")
    /\ UNCHANGED <<now, bucketVars, cacheVars, database, last, hist>>

\* self.database.log_chat_turn(...) and the return, or the RuntimeError
StatementLog(dbok) ==
    LET was_cached == threads.done[1] = <<"get", "hit">>
        outcome == ChatOutcome(was_cached, TRUE, threads.value, dbok)
    IN  /\ threads.pc = "log"
        /\ database' = IF dbok
                       THEN Append(database,
                                   ChatRow(threads.prompt, threads.value, was_cached, now))
                       ELSE database
        /\ threads' = Ran(threads, IF dbok THEN "ok" ELSE "failed")
        /\ last' = [Last("chat", outcome, ChatReturn(outcome, threads.value), 0, NoWait)
                    EXCEPT !.args = <<threads.prompt>>,
                           !.error = ChatError(outcome, NoError)]
        /\ UNCHANGED <<now, bucketVars, cacheVars, memory, hist>>

\* time passes, between two calls or two statements
StatementsTick ==
    /\ now < MaxCacheTime
    /\ now' = now + 1
    /\ UNCHANGED <<threads, bucketVars, cacheVars, chatVars, last, hist>>

\* chatbot.clear_memory() between two calls
StatementsClearMemory ==
    /\ threads.pc = "idle"
    /\ memory # <<>>
    /\ memory' = <<>>
    /\ UNCHANGED <<threads, now, bucketVars, cacheVars, database, last, hist>>

InitStatements ==
    /\ now = 0
    /\ requests_per_minute \in 1..MaxRpm
    /\ bucket = RateLimiter(requests_per_minute, 0)
    /\ cache = <<>>
    /\ max_size \in 1..MaxCacheSize
    /\ ttl_seconds \in 1..MaxTtl
    /\ hits = 0
    /\ misses = 0
    /\ memory = <<>>
    /\ database = <<>>
    /\ last = Last("init", "", "", 0, NoWait)
    /\ hist = NoHist
    /\ threads = IdleChat

NextStatements ==
    \/ StatementsTick
    \/ \E prompt \in Prompts : StatementsBegin(prompt)
    \/ StatementGet
    \/ StatementCheckRateLimit
    \/ \E up \in Responses \cup {UpstreamFails} : StatementInvoke(up)
    \/ StatementPut
    \/ StatementAddMessages
    \/ \E dbok \in BOOLEAN : StatementLog(dbok)
    \/ StatementsClearMemory

SpecStatements == InitStatements /\ [][NextStatements]_vars

\* statement a ended with result r before the j-th statement of the call
RanBefore(d, a, r, j) == \E i \in 1..(j - 1) : d[i] = <<a, r>>

\* the statements run so far are in the order of the code, none run twice
InCodeOrder(d) ==
    LET rank == [s \in {"get", "check_rate_limit", "invoke", "put",
                        "add_messages", "log"} |->
                   IF s = "get" THEN 1
                   ELSE IF s = "check_rate_limit" THEN 2
                   ELSE IF s = "invoke" THEN 3
                   ELSE IF s = "put" THEN 4
                   ELSE IF s = "add_messages" THEN 5 ELSE 6]
    IN  \A i, j \in 1..Len(d) : i < j => rank[d[i][1]] < rank[d[j][1]]

\* the cache lookup comes first, and the model is invoked only after the lookup
\* missed and check_rate_limit succeeded
LookupThenAdmission(d) ==
    /\ d # <<>> => d[1][1] = "get"
    /\ \A j \in 1..Len(d) :
          d[j][1] = "check_rate_limit" => d[1] = <<"get", "miss">>
    /\ \A j \in 1..Len(d) :
          d[j][1] = "invoke" => /\ d[1] = <<"get", "miss">>
                                /\ RanBefore(d, "check_rate_limit", "ok", j)

\* C28 as stated: within one chat() call the steps are strictly ordered: the
\* cache lookup comes first; the model is invoked only if the lookup missed and
\* check_rate_limit then succeeded; the cache insert, the context append and
\* the log append happen only after the model call returned successfully.
StepsOrdered ==
    LET d == threads.done
    IN  /\ InCodeOrder(d)
        /\ LookupThenAdmission(d)
        /\ \A j \in 1..Len(d) :
              d[j][1] \in {"put", "add_messages", "log"}
                 => RanBefore(d, "invoke", "ok", j)

\* C28 amended: the same, except that after a lookup that hit the context
\* append and the log append happen with no model call (and no cache insert):
\* only on a miss do they wait for the model call to return successfully.
StepsOrderedOnMiss ==
    LET d == threads.done
    IN  /\ InCodeOrder(d)
        /\ LookupThenAdmission(d)
        /\ \A j \in 1..Len(d) :
              d[j][1] = "put" => RanBefore(d, "invoke", "ok", j)
        /\ \A j \in 1..Len(d) :
              d[j][1] \in {"add_messages", "log"}
                 => \/ RanBefore(d, "invoke", "ok", j) /\ RanBefore(d, "put", "ok", j)
                    \/ d[1] = <<"get", "hit">>

\* C28 witness: a call that missed has run every statement, the model call
\* before the insert, the append and the log
MissRanAllStatements ==
    /\ threads.pc = "idle"
    /\ threads.done = <<<<"get", "miss">>, <<"check_rate_limit", "ok">>,
                        <<"invoke", "ok">>, <<"put", "ok">>,
                        <<"add_messages", "ok">>, <<"log", "ok">>>>
    /\ last.outcome = "miss"
    /\ Len(memory) >= 4

----------------------------------------------------------------------------
(* The counters of the cache.  hist.count is the number of get calls made  *)
(* since the cache was built or cleared.                                   *)

\* cache.get, counted
GetCounted(tr, d) ==
    /\ hist.count < MaxCounted
    /\ GetCall(tr, d, MaxCacheTime)
    /\ hist' = [hist EXCEPT !.count = @ + 1]

\* cache.clear(), after which the count starts again
ClearCounted ==
    /\ ClearCall
    /\ hist' = [hist EXCEPT !.count = 0]

\* cache.put, which is no get
PutUncounted(tr, value) ==
    LET key == KeyOfTriple(tr)
    IN  /\ HasKey(cache, key) => EntryOf(cache, key).access_count < MaxAccess
        /\ cache' = PutCache(cache, max_size, key, value, now)
        /\ last' = WithArgs(Last("put", "", "", 0, NoWait), hist, tr)
        /\ UNCHANGED <<threads, now, bucketVars, max_size, ttl_seconds, hits, misses,
                       chatVars, hist>>

NextCounters ==
    \/ Tick(MaxCacheTime)
    \/ \E tr \in LruTriples, d \in 0..1 : GetCounted(tr, d)
    \/ \E tr \in LruTriples, v \in LruValues : PutUncounted(tr, v)
    \/ ClearCounted

SpecCounters == InitKeys /\ [][NextCounters]_vars

\* C29: every get adds one to exactly one of hits and misses: to hits, with one
\* more access counted on the entry and the entry moved to the most recently
\* used end, when the key is stored and not expired, to misses otherwise; no
\* call but clear lowers a counter, and hits + misses is the number of get calls
\* since the last clear.
CountersExact ==
    [][/\ last'.op = "get" =>
            LET key == KeyOfTriple(last'.args)
                live == /\ HasKey(cache, key)
                        /\ ~(now' - EntryOf(cache, key).timestamp > ttl_seconds)
            IN  /\ live => /\ hits' = hits + 1
                           /\ misses' = misses
                           /\ last'.ret = EntryOf(cache, key).value
                           /\ cache'[Len(cache')]
                                 = [EntryOf(cache, key)
                                      EXCEPT !.access_count = @ + 1]
                /\ ~live => /\ misses' = misses + 1
                            /\ hits' = hits
                            /\ ~HasKey(cache', key)
       /\ last'.op # "clear" => hits' >= hits /\ misses' >= misses
       /\ last'.op \notin {"get", "clear"} => hits' = hits /\ misses' = misses
       /\ hits' + misses' = hist'.count]_vars

\* C29 witness: three gets since the last clear, hits and misses among them, the
\* last one a hit that moved its entry behind another one
CountedHitsAndMisses ==
    /\ hist.count = 3
    /\ hits >= 1
    /\ misses >= 1
    /\ last.op = "get"
    /\ last.outcome = "hit"
    /\ Len(cache) = 2
    /\ cache[2].key = KeyOfTriple(last.args)
    /\ cache[2].timestamp <= cache[1].timestamp

----------------------------------------------------------------------------
(* Expired entries after a call that cleans up *)

\* the call made is one that starts with _cleanup_expired and stores nothing
IsCleaningRead(l) == l.op \in {"get", "get_stats", "get_size"}

\* no entry of c is older than ttl at clock reading t
NoneExpired(c, ttl, t) == \A i \in 1..Len(c) : ~(t - c[i].timestamp > ttl)

\* C30 as stated: immediately after any get, get_stats or get_size call no entry
\* stored in the cache is expired.
NoExpiredAfterRead ==
    IsCleaningRead(last) => NoneExpired(cache, ttl_seconds, now)

\* C30 amended: after any get, get_stats or get_size call no entry stored in the
\* cache was expired at the clock reading of the call's cleanup, whichever key
\* was asked for (an entry that reaches its TTL while the call runs stays until
\* the next call), and get returns a value only of an entry that its own expiry
\* test, made after the cleanup, found not expired.
NoExpiredAtCleanup ==
    [][/\ IsCleaningRead(last') => NoneExpired(cache', ttl_seconds, now)
       /\ \A tr \in LruTriples, d \in 0..1 :
             (Get(tr, d, MaxCacheTime) /\ last'.outcome = "hit")
                => /\ HasKey(cache, KeyOfTriple(tr))
                   /\ last'.ret = EntryOf(cache, KeyOfTriple(tr)).value
                   /\ ~(now' - EntryOf(cache, KeyOfTriple(tr)).timestamp
                          > ttl_seconds)]_vars

\* C30 witness: no get was made since the cache was built or cleared, entries
\* were put, and a get_size made after their TTL finds the cache empty: the
\* entries were removed by the cleanup of get_size or get_stats
ExpiredPurgedBySize ==
    /\ last.op = "get_size"
    /\ last.n = 0
    /\ cache = <<>>
    /\ hits + misses = 0
    /\ ~hist.valid
    /\ now > ttl_seconds


(***************************************************************************)
(* C31.  RateLimiter(requests_per_minute = R) has capacity R and refills   *)
(* R tokens per minute; get_status() reports available_tokens as the       *)
(* token count truncated to an integer in 0..R, and it consumes nothing:   *)
(* at every later instant the bucket refills to the same state, and so     *)
(* admits the same requests, as if get_status had not been called.         *)
(***************************************************************************)
LaterTimes == now .. (MaxTime + 1)

StatusShape ==
    /\ bucket.capacity = requests_per_minute
    /\ bucket.refill_rate = requests_per_minute

StatusReport ==
    /\ last'.n = IntOfTokens(Refill(bucket, now).tokens)
    /\ last'.n \in 0 .. requests_per_minute
    /\ last'.n * TokUnit <= Refill(bucket, now).tokens
    /\ Refill(bucket, now).tokens < (last'.n + 1) * TokUnit

StatusConsumesNothing ==
    \A t \in LaterTimes :
        /\ Refill(bucket', t) = Refill(bucket, t)
        /\ ConsumeBucket(bucket', 1, t) = ConsumeBucket(bucket, 1, t)

GetStatusReadOnly ==
    /\ [](StatusShape)
    /\ [][last'.op = "get_status" => StatusReport /\ StatusConsumesNothing]_vars

(* A status read of a drained limiter that has refilled a fraction of a   *)
(* token: the report truncates it to 0.                                    *)
StatusOfPartlyRefilled ==
    /\ last.op = "get_status"
    /\ last.n = 0
    /\ bucket.tokens > 0
    /\ bucket.tokens < TokUnit



----------------------------------------------------------------------------
(* The module-level singletons.  hist holds the objects of the process:    *)
(* limiters and caches are the RateLimiter and LRUCacheWithTTL objects     *)
(* ever made, global_rate_limiter and global_cache the index of the object *)
(* the module global refers to (0: None), chatbots the ChatbotWithMemory   *)
(* instances with the indices of the objects their constructor was given,  *)
(* and the number of resets made before it.  bucket, requests_per_minute   *)
(* and the cache variables show the global objects (zeros while None).     *)

MaxChatbots == 2      \* ChatbotWithMemory instances constructed
MaxResets == 1        \* reset_rate_limiter and reset_cache calls, together
MaxObjectsTime == 1   \* the clock stops at this tick while objects are made

\* get_cache(max_size=50, ttl_seconds=300) of the constructor; 300 s in ticks
DefaultMaxSize == 50
DefaultTtl == 20

NoneLimiter == [requests_per_minute |-> 0, bucket |-> TokenBucket(0, 0, 0)]
NoneCache == [max_size |-> 0, ttl_seconds |-> 0, cache |-> <<>>, hits |-> 0, misses |-> 0]

InitObjects ==
    [limiters |-> <<>>, caches |-> <<>>,
     global_rate_limiter |-> 0, global_cache |-> 0,
     limiter_resets |-> 0, cache_resets |-> 0,
     chatbots |-> <<>>]

\* a get_rate_limiter that builds a limiter of the rate asked on every call
GetRateLimiterAlwaysNew(h, rpm, t) ==
    [h EXCEPT !.limiters = Append(@, [requests_per_minute |-> rpm,
                                      bucket |-> RateLimiter(rpm, t)]),
              !.global_rate_limiter = Len(h.limiters) + 1]

\* get_rate_limiter(requests_per_minute) at clock reading t
GetRateLimiter(h, rpm, t) ==
    IF h.global_rate_limiter = 0
    THEN [h EXCEPT !.limiters = Append(@, [requests_per_minute |-> rpm,
                                           bucket |-> RateLimiter(rpm, t)]),
                   !.global_rate_limiter = Len(h.limiters) + 1]
    ELSE h

\* get_cache(max_size, ttl_seconds)
GetGlobalCache(h, max, ttl) ==
    IF h.global_cache = 0
    THEN [h EXCEPT !.caches = Append(@, [max_size |-> max, ttl_seconds |-> ttl,
                                         cache |-> <<>>, hits |-> 0, misses |-> 0]),
                   !.global_cache = Len(h.caches) + 1]
    ELSE h

GlobalLimiter(h) ==
    IF h.global_rate_limiter = 0 THEN NoneLimiter ELSE h.limiters[h.global_rate_limiter]

GlobalCache(h) ==
    IF h.global_cache = 0 THEN NoneCache ELSE h.caches[h.global_cache]

\* the step of a call that leaves the objects as h and returns l
ObjectsStep(h, l) ==
    /\ hist' = h
    /\ last' = l
    /\ bucket' = GlobalLimiter(h).bucket
    /\ requests_per_minute' = GlobalLimiter(h).requests_per_minute
    /\ cache' = GlobalCache(h).cache
    /\ max_size' = GlobalCache(h).max_size
    /\ ttl_seconds' = GlobalCache(h).ttl_seconds
    /\ hits' = GlobalCache(h).hits
    /\ misses' = GlobalCache(h).misses
    /\ UNCHANGED <<now, threads, chatVars>>

\* ChatbotWithMemory(requests_per_minute=rpm)
NewChatbot(rpm) ==
    LET h1 == GetRateLimiter(hist, rpm, now)
        h2 == GetGlobalCache(h1, DefaultMaxSize, DefaultTtl)
        h3 == [h2 EXCEPT !.chatbots =
                 Append(@, [rate_limiter |-> h2.global_rate_limiter,
                            cache |-> h2.global_cache,
                            limiter_resets |-> h2.limiter_resets,
                            cache_resets |-> h2.cache_resets])]
    IN  /\ Len(hist.chatbots) < MaxChatbots
        /\ ObjectsStep(h3, Last("ChatbotWithMemory", "", "", rpm, NoWait))

\* get_rate_limiter(rpm) called directly
GetRateLimiterCall(rpm) ==
    /\ Len(hist.limiters) <= MaxResets
    /\ ObjectsStep(GetRateLimiter(hist, rpm, now),
                   Last("get_rate_limiter", "", "", rpm, NoWait))

\* get_cache(max, ttl) called directly
GetCacheCall(max, ttl) ==
    /\ Len(hist.caches) <= MaxResets
    /\ ObjectsStep(GetGlobalCache(hist, max, ttl),
                   [Last("get_cache", "", "", max, NoWait) EXCEPT !.args = <<max, ttl>>])

\* reset_rate_limiter()
ResetRateLimiter ==
    /\ hist.limiter_resets + hist.cache_resets < MaxResets
    /\ ObjectsStep([hist EXCEPT !.global_rate_limiter = 0,
                                !.limiter_resets = @ + 1],
                   Last("reset_rate_limiter", "", "", 0, NoWait))

\* reset_cache()
ResetCache ==
    /\ hist.limiter_resets + hist.cache_resets < MaxResets
    /\ ObjectsStep([hist EXCEPT !.global_cache = 0, !.cache_resets = @ + 1],
                   Last("reset_cache", "", "", 0, NoWait))

\* chatbot i: self.rate_limiter.check_rate_limit()
ChatbotCheckRateLimit(i) ==
    LET k == hist.chatbots[i].rate_limiter
        b == hist.limiters[k].bucket
    IN  ObjectsStep([hist EXCEPT !.limiters[k].bucket = CheckRateLimitBucket(b, now)],
                    [Last("check_rate_limit",
                          IF ConsumeOk(b, 1, now) THEN "ok" ELSE "RateLimitError",
                          "", i, NoWait)
                     EXCEPT !.error = CheckRateLimitError(
                                         b, hist.limiters[k].requests_per_minute, now)])

\* chatbot i: get_rate_limit_status(); n is available_tokens
ChatbotGetRateLimitStatus(i) ==
    LET k == hist.chatbots[i].rate_limiter
        b == hist.limiters[k].bucket
    IN  ObjectsStep([hist EXCEPT !.limiters[k].bucket = Refill(Refill(b, now), now)],
                    [Last("get_rate_limit_status", "", "",
                          IntOfTokens(Refill(b, now).tokens),
                          TimeUntilAvailable(Refill(b, now), 1, now))
                     EXCEPT !.args = <<i>>])

\* chatbot i: self.cache.put(prompt, value, model, "")
ChatbotCachePut(i, prompt, value) ==
    LET k == hist.chatbots[i].cache
        c == hist.caches[k]
        key == GenerateKey(prompt, ModelName, "")
    IN  /\ HasKey(c.cache, key) => EntryOf(c.cache, key).access_count < MaxAccess
        /\ ObjectsStep([hist EXCEPT !.caches[k].cache =
                          PutCache(c.cache, c.max_size, key, value, now)],
                       [Last("put", "", "", i, NoWait) EXCEPT !.args = <<prompt>>])

\* chatbot i: self.cache.get(prompt, model, "")
ChatbotCacheGet(i, prompt) ==
    LET k == hist.chatbots[i].cache
        c == hist.caches[k]
        key == GenerateKey(prompt, ModelName, "")
        hit == GetHit(c.cache, c.ttl_seconds, key, now, now)
    IN  /\ c.hits + c.misses < MaxGets
        /\ ObjectsStep([hist EXCEPT
                          !.caches[k].cache = GetCache(c.cache, c.ttl_seconds, key, now, now),
                          !.caches[k].hits = IF hit THEN @ + 1 ELSE @,
                          !.caches[k].misses = IF hit THEN @ ELSE @ + 1],
                       [Last("get", IF hit THEN "hit" ELSE "miss",
                             IF hit THEN GetValue(CleanupExpired(c.cache, c.ttl_seconds, now),
                                                  key) ELSE "",
                             i, NoWait) EXCEPT !.args = <<prompt>>])

InitSingletons ==
    /\ now = 0
    /\ bucket = NoneLimiter.bucket
    /\ requests_per_minute = NoneLimiter.requests_per_minute
    /\ cache = NoneCache.cache
    /\ max_size = NoneCache.max_size
    /\ ttl_seconds = NoneCache.ttl_seconds
    /\ hits = NoneCache.hits
    /\ misses = NoneCache.misses
    /\ memory = <<>>
    /\ database = <<>>
    /\ last = Last("init", "", "", 0, NoWait)
    /\ hist = InitObjects
    /\ threads = NoThreads

NextSingletons ==
    \/ Tick(MaxObjectsTime)
    \/ \E rpm \in 1..MaxRpm : NewChatbot(rpm)
    \/ \E rpm \in 1..MaxRpm : GetRateLimiterCall(rpm)
    \/ \E max \in 1..MaxCacheSize, ttl \in 1..MaxTtl : GetCacheCall(max, ttl)
    \/ ResetRateLimiter
    \/ ResetCache
    \/ \E i \in 1..Len(hist.chatbots) : ChatbotCheckRateLimit(i)
    \/ \E i \in 1..Len(hist.chatbots) : ChatbotGetRateLimitStatus(i)
    \/ \E i \in 1..Len(hist.chatbots), value \in Responses : ChatbotCachePut(i, "hi", value)
    \/ \E i \in 1..Len(hist.chatbots) : ChatbotCacheGet(i, "hi")

SpecSingletons == InitSingletons /\ [][NextSingletons]_vars

(***************************************************************************)
(* C32.  The chatbots of a process share one rate limiter and one cache,   *)
(* made on first use: chatbots constructed with no reset between them hold *)
(* the same objects, so a token one of them consumes is gone from the      *)
(* budget each of the others sees; and a get_rate_limiter or get_cache     *)
(* call made while the global is set returns that object as it is, the     *)
(* rate, size and TTL passed being ignored, while a call made while the    *)
(* global is None (first use, or after a reset) builds one with them.      *)
(***************************************************************************)
SameObjects(h) ==
    \A i, j \in 1..Len(h.chatbots) :
        /\ h.chatbots[i].limiter_resets = h.chatbots[j].limiter_resets
              => h.chatbots[i].rate_limiter = h.chatbots[j].rate_limiter
        /\ h.chatbots[i].cache_resets = h.chatbots[j].cache_resets
              => h.chatbots[i].cache = h.chatbots[j].cache

\* the whole tokens chatbot j is shown by get_rate_limit_status at time t
BudgetSeen(h, j, t) ==
    IntOfTokens(Refill(h.limiters[h.chatbots[j].rate_limiter].bucket, t).tokens)

IsLimiterRequest(l) == l.op \in {"ChatbotWithMemory", "get_rate_limiter"}
IsCacheRequest(l) == l.op \in {"ChatbotWithMemory", "get_cache"}

LimiterArgumentRule ==
    IsLimiterRequest(last') =>
        IF hist.global_rate_limiter # 0
        THEN /\ hist'.global_rate_limiter = hist.global_rate_limiter
             /\ hist'.limiters = hist.limiters
        ELSE /\ hist'.global_rate_limiter = Len(hist.limiters) + 1
             /\ GlobalLimiter(hist').requests_per_minute = last'.n
             /\ GlobalLimiter(hist').bucket = RateLimiter(last'.n, now)

CacheArgumentRule ==
    IsCacheRequest(last') =>
        IF hist.global_cache # 0
        THEN /\ hist'.global_cache = hist.global_cache
             /\ hist'.caches = hist.caches
        ELSE /\ hist'.global_cache = Len(hist.caches) + 1
             /\ GlobalCache(hist').cache = <<>>
             /\ last'.op = "get_cache"
                  => /\ GlobalCache(hist').max_size = last'.args[1]
                     /\ GlobalCache(hist').ttl_seconds = last'.args[2]
             /\ last'.op = "ChatbotWithMemory"
                  => /\ GlobalCache(hist').max_size = DefaultMaxSize
                     /\ GlobalCache(hist').ttl_seconds = DefaultTtl

SharedBudgetRule ==
    (last'.op = "check_rate_limit" /\ last'.outcome = "ok") =>
        \A j \in 1..Len(hist.chatbots) :
            hist.chatbots[j].limiter_resets = hist.chatbots[last'.n].limiter_resets
               => BudgetSeen(hist', j, now) = BudgetSeen(hist, j, now) - 1

SharedCacheRule ==
    (last'.op = "get" /\ hist.chatbots[last'.n].cache_resets = hist.cache_resets) =>
        (last'.outcome = "hit"
           <=> GetHit(cache, ttl_seconds,
                      GenerateKey(last'.args[1], ModelName, ""), now, now))

SingletonsShared ==
    /\ [](SameObjects(hist))
    /\ [][LimiterArgumentRule /\ CacheArgumentRule
          /\ SharedBudgetRule /\ SharedCacheRule]_vars

(* The second chatbot, constructed with another rate, spent the token of   *)
(* the limiter the first chatbot made, and the first chatbot sees none.    *)
SecondChatbotSpentSharedToken ==
    /\ Len(hist.chatbots) = 2
    /\ hist.limiter_resets = 0
    /\ Len(hist.limiters) = 1
    /\ last.op = "check_rate_limit"
    /\ last.n = 2
    /\ last.outcome = "ok"
    /\ BudgetSeen(hist, 1, now) = 0



----------------------------------------------------------------------------
(* POST /chat requests in progress at the same time.  A request takes the  *)
(* hit counter of the shared cache, calls chat() on its own new chatbot,   *)
(* takes the counter again and answers; threads[i] is request i: the       *)
(* handler's locals, and served_from_cache, whether its own cache.get hit. *)

IdleRequest ==
    [pc |-> "idle", message |-> "", hits_before |-> 0, response |-> "",
     was_cached |-> FALSE, served_from_cache |-> FALSE]

\* the handler's first statements: the chatbot and the snapshot before
RequestBegin(i, prompt) ==
    /\ threads[i].pc \in {"idle", "responded"}
    /\ hits + misses + Cardinality({j \in RaceThreads : threads[j].pc = "chatting"})
         < MaxChats
    /\ cache' = CleanupExpired(cache, ttl_seconds, now)
    /\ threads' = [threads EXCEPT ![i] =
                     [IdleRequest EXCEPT !.pc = "chatting", !.message = prompt,
                                         !.hits_before = hits]]
    /\ last' = [Last("get_cache_stats", "", "", hits, NoWait) EXCEPT !.args = <<i>>]
    /\ UNCHANGED <<now, bucketVars, max_size, ttl_seconds, hits, misses, chatVars, hist>>

\* chatbot.chat(request.message) of request i, its context empty
RequestChat(i, up, dbok) ==
    LET prompt == threads[i].message
        key == GenerateKey(prompt, ModelName, Context(<<>>))
        hit == GetHit(cache, ttl_seconds, key, now, now)
        admitted == ~hit /\ ConsumeOk(bucket, 1, now)
        outcome == ChatOutcome(hit, admitted, up, dbok)
        value == IF hit THEN GetValue(CleanupExpired(cache, ttl_seconds, now), key)
                 ELSE IF admitted /\ up # UpstreamFails THEN up ELSE ""
        error == ChatError(outcome, CheckRateLimitError(bucket, requests_per_minute, now))
    IN  /\ threads[i].pc = "chatting"
        /\ up # UpstreamFails => admitted
        /\ ~dbok => TurnMade(outcome)
        /\ hits' = IF hit THEN hits + 1 ELSE hits
        /\ misses' = IF hit THEN misses ELSE misses + 1
        /\ bucket' = ChatBucket(bucket, hit, now)
        /\ cache' = ChatCache(cache, max_size, ttl_seconds, key, value, outcome,
                              now, now, now)
        /\ database' = ChatDatabase(database, prompt, value, outcome, now)
        /\ threads' = [threads EXCEPT ![i] =
                         IF error = NoError
                         THEN [@ EXCEPT !.pc = "chatted", !.response = value,
                                        !.served_from_cache = hit]
                         ELSE IdleRequest]
        /\ last' = [Last("chat", outcome, ChatReturn(outcome, value),
                         HttpStatus(error), NoWait)
                    EXCEPT !.args = <<i>>, !.error = HttpError(error)]
        /\ UNCHANGED <<now, requests_per_minute, max_size, ttl_seconds, memory, hist>>

\* the snapshot after, was_cached = hits_after > hits_before, and the response
RequestEnd(i) ==
    /\ threads[i].pc = "chatted"
    /\ cache' = CleanupExpired(cache, ttl_seconds, now)
    /\ threads' = [threads EXCEPT ![i] =
                     [@ EXCEPT !.pc = "responded",
                               !.was_cached = (hits > threads[i].hits_before)]]
    /\ last' = [Last("POST /chat", IF hits > threads[i].hits_before THEN "hit" ELSE "miss",
                     threads[i].response, 200, NoWait) EXCEPT !.args = <<i>>]
    /\ UNCHANGED <<now, bucketVars, max_size, ttl_seconds, hits, misses, chatVars, hist>>

InitRequests ==
    /\ now = 0
    /\ requests_per_minute \in 1..MaxRpm
    /\ bucket = RateLimiter(requests_per_minute, 0)
    /\ cache = <<>>
    /\ max_size \in 1..MaxCacheSize
    /\ ttl_seconds \in 1..MaxTtl
    /\ hits = 0
    /\ misses = 0
    /\ memory = <<>>
    /\ database = <<>>
    /\ last = Last("init", "", "", 0, NoWait)
    /\ hist = NoHist
    /\ threads = [i \in RaceThreads |-> IdleRequest]

NextRequests ==
    \/ Tick(MaxCacheTime)
    \/ \E i \in RaceThreads, prompt \in Prompts : RequestBegin(i, prompt)
    \/ \E i \in RaceThreads, up \in Responses \cup {UpstreamFails}, dbok \in BOOLEAN :
          RequestChat(i, up, dbok)
    \/ \E i \in RaceThreads : RequestEnd(i)

SpecRequests == InitRequests /\ [][NextRequests]_vars

(***************************************************************************)
(* C33.  The was_cached flag of every answered request is true exactly     *)
(* when that request's own response was served from the cache, also when   *)
(* another request hits the shared cache between its two snapshots.        *)
(***************************************************************************)
FlagIsOwnHit ==
    \A i \in RaceThreads :
        threads[i].pc = "responded"
           => (threads[i].was_cached <=> threads[i].served_from_cache)



(***************************************************************************)
(* C34.  An entry's expiry instant is fixed by its latest put.  A get that *)
(* hits moves the entry to the most recently used place and leaves its     *)
(* value and timestamp as they were; a put on a key already stored makes   *)
(* the entry the most recently used one with the new value, the time of    *)
(* the put as timestamp and an access count one higher, and evicts nothing.*)
(***************************************************************************)
MostRecent(c) == c[Len(c)]

HitKeepsStamp(tr) ==
    LET key == KeyOfTriple(tr)
        c1 == CleanupExpired(cache, ttl_seconds, now)
    IN  /\ MostRecent(cache').key = key
        /\ MostRecent(cache').timestamp = EntryOf(c1, key).timestamp
        /\ MostRecent(cache').value = EntryOf(c1, key).value
        /\ DelKey(cache', key) = DelKey(c1, key)

UpdateRestartsTtl(tr, value) ==
    LET key == KeyOfTriple(tr)
    IN  /\ MostRecent(cache') =
              CacheEntry(key, value, now, EntryOf(cache, key).access_count + 1)
        /\ DelKey(cache', key) = DelKey(cache, key)
        /\ Len(cache') = Len(cache)

ExpiryFixedByPut ==
    [][/\ \A tr \in CacheTriples, d \in 0..1 :
             (Get(tr, d, MaxCacheTime) /\ last'.outcome = "hit") => HitKeepsStamp(tr)
       /\ \A tr \in CacheTriples, v \in CacheValues :
             (Put(tr, v) /\ HasKey(cache, KeyOfTriple(tr))) => UpdateRestartsTtl(tr, v)
      ]_vars

(* A get hit an entry put earlier, in a full cache of two: the entry is    *)
(* the most recently used one and still carries the time of its put.       *)
HitEntryKeptPutTime ==
    /\ last.op = "get"
    /\ last.outcome = "hit"
    /\ Len(cache) = 2
    /\ MostRecent(cache).timestamp < now
    /\ MostRecent(cache).access_count = 1



----------------------------------------------------------------------------
(* The admissions of a limiter over time.  hist.admitted lists the clock   *)
(* readings of the check_rate_limit calls that were admitted, in order.    *)

InitAdmitted == [admitted |-> <<>>]

\* check_rate_limit(), the time of an admission kept
CheckRateLimitCounted ==
    /\ CheckRateLimitCall
    /\ hist' = IF ConsumeOk(bucket, 1, now)
               THEN [hist EXCEPT !.admitted = Append(@, now)]
               ELSE hist

InitWindow ==
    /\ now = 0
    /\ \E c \in 1..MaxCapacity, r \in 1..MaxRate :
          /\ bucket = TokenBucket(c, r, 0)
          /\ requests_per_minute = c
    /\ cache = <<>>
    /\ max_size = 1
    /\ ttl_seconds = 1
    /\ hits = 0
    /\ misses = 0
    /\ memory = <<>>
    /\ database = <<>>
    /\ last = Last("init", "", "", 0, NoWait)
    /\ hist = InitAdmitted
    /\ threads = NoThreads

NextWindow ==
    \/ Tick(MaxTime)
    \/ CheckRateLimitCounted
    \/ GetStatus

SpecWindow == InitWindow /\ [][NextWindow]_vars

(***************************************************************************)
(* C35.  In every time window, whatever the state of the bucket at its     *)
(* start, the check_rate_limit calls admitted are at most                  *)
(* capacity + refill_rate * (length of the window).                        *)
(***************************************************************************)
AdmittedIn(from, to) ==
    Cardinality({i \in 1..Len(hist.admitted) :
                    from <= hist.admitted[i] /\ hist.admitted[i] <= to})

AdmissionBound ==
    \A from \in 0..now : \A to \in from..now :
        AdmittedIn(from, to) * TokUnit
           <= bucket.capacity * TokUnit + bucket.refill_rate * (to - from)

(* A window that opens after the initial burst was spent and in which the  *)
(* admissions reach the bound: a bucket of capacity 1 admits a call at the *)
(* start of the window and as many later as were refilled.                 *)
WindowBoundReached ==
    /\ bucket.capacity = 1
    /\ \E from \in 1..now :
          /\ from < now
          /\ AdmittedIn(0, from - 1) >= 1
          /\ AdmittedIn(from, now) >= 2
          /\ AdmittedIn(from, now) * TokUnit
                = bucket.capacity * TokUnit + bucket.refill_rate * (now - from)



----------------------------------------------------------------------------
(* A caller that was rate limited and calls again.  hist.waiting: a caller *)
(* was rejected and has not been admitted since; hist.since and hist.wait: *)
(* the time of its rejection and the wait it was told; hist.alone: no      *)
(* other call has taken a token since.  Other callers stop at TrafficStop. *)

TrafficStop == MaxTime - TokUnit

InitWaiting == [waiting |-> FALSE, since |-> 0, wait |-> NoWait, alone |-> TRUE]

\* the wait w, in ticks as <<numerator, denominator>>, is over at clock reading t
WaitOver(w, since, t) == (t - since) * w[2] >= w[1]

\* another caller's bucket.consume(n)
OtherConsume(n) ==
    /\ now < TrafficStop
    /\ bucket' = ConsumeBucket(bucket, n, now)
    /\ last' = Last("consume", IF ConsumeOk(bucket, n, now) THEN "ok" ELSE "rejected",
                    "", n, NoWait)
    /\ hist' = IF ConsumeOk(bucket, n, now) THEN [hist EXCEPT !.alone = FALSE] ELSE hist
    /\ UNCHANGED <<threads, now, requests_per_minute, cacheVars, chatVars>>

\* the history of the caller after its check_rate_limit at clock reading t
WaitingAfter(h, b, t) ==
    IF ConsumeOk(b, 1, t)
    THEN (IF h.waiting THEN [h EXCEPT !.waiting = FALSE] ELSE InitWaiting)
    ELSE [waiting |-> TRUE, since |-> t,
          wait |-> TimeUntilAvailable(ConsumeBucket(b, 1, t), 1, t),
          alone |-> TRUE]

\* the caller's first check_rate_limit()
CallerCheck ==
    /\ ~hist.waiting
    /\ now < TrafficStop
    /\ CheckRateLimitCall
    /\ hist' = WaitingAfter(hist, bucket, now)

\* the caller's next check_rate_limit(), made when the wait it was told is over
CallerRetry ==
    /\ hist.waiting
    /\ WaitOver(hist.wait, hist.since, now)
    /\ CheckRateLimitCall
    /\ hist' = WaitingAfter(hist, bucket, now)

InitRetry ==
    /\ now = 0
    /\ \E c \in 1..MaxCapacity, r \in 1..MaxRate :
          /\ bucket = TokenBucket(c, r, 0)
          /\ requests_per_minute = c
    /\ cache = <<>>
    /\ max_size = 1
    /\ ttl_seconds = 1
    /\ hits = 0
    /\ misses = 0
    /\ memory = <<>>
    /\ database = <<>>
    /\ last = Last("init", "", "", 0, NoWait)
    /\ hist = InitWaiting
    /\ threads = NoThreads

NextRetry ==
    \/ Tick(MaxTime)
    \/ \E n \in 1..bucket.capacity : OtherConsume(n)
    \/ CallerCheck
    \/ CallerRetry

\* time passes, and a caller that was rejected calls again after its wait
SpecRetry ==
    InitRetry /\ [][NextRetry]_vars /\ WF_vars(Tick(MaxTime)) /\ WF_vars(CallerRetry)

(***************************************************************************)
(* C36.  The wait reported is sufficient: when time_until_available(n),    *)
(* n <= capacity, returns r, a consume(n) made r or more later with no     *)
(* consumption in between succeeds; it returns 0 exactly when consume(n)   *)
(* would succeed now; and a rate-limited caller that calls again after its *)
(* wait is admitted in the end, once the other callers have stopped.       *)
(***************************************************************************)
WaitSufficient ==
    \A n \in 1..bucket.capacity :
        LET w == TimeUntilAvailable(bucket, n, now)
        IN  /\ w[1] >= 0
            /\ w[1] = 0 <=> ConsumeOk(bucket, n, now)
            /\ \A t \in now..(MaxTime + TokUnit) :
                  WaitOver(w, now, t) => ConsumeOk(Refill(bucket, now), n, t)

RetryAloneAdmitted ==
    (CallerRetry /\ hist.alone) => last'.outcome = "ok"

WaitHonoured ==
    /\ [](WaitSufficient)
    /\ [][RetryAloneAdmitted]_vars
    /\ (hist.waiting ~> ~hist.waiting)

(* A caller was rejected, waited the time it was told with no other call   *)
(* in between, called again and was admitted.                              *)
AdmittedAfterWait ==
    /\ last.op = "check_rate_limit"
    /\ last.outcome = "ok"
    /\ ~hist.waiting
    /\ hist.wait[1] > 0
    /\ hist.alone
    /\ bucket.capacity = 2
    /\ now * hist.wait[2] = hist.since * hist.wait[2] + hist.wait[1]



(***************************************************************************)
(* C37.  A chat() that the rate limiter admits and whose upstream call     *)
(* then fails has cost one token, which is not given back: with a bucket   *)
(* of capacity 1, a chat() that misses the cache before a whole token has  *)
(* been refilled is rejected with RateLimitError.                          *)
(***************************************************************************)
FailedCallTookToken ==
    (last'.op = "chat" /\ last'.outcome = "upstream_failed") =>
        bucket'.tokens = Refill(bucket, bucket'.last_refill).tokens - TokUnit

NextMissRejected ==
    (/\ last.op = "chat" /\ last.outcome = "upstream_failed"
     /\ bucket.capacity = 1
     /\ last'.op = "chat" /\ misses' = misses + 1
     /\ (bucket'.last_refill - bucket.last_refill) * bucket.refill_rate < TokUnit)
       => /\ last'.outcome = "RateLimitError"
          /\ last'.error.type = "RateLimitError"

FailureCostsToken == [][FailedCallTookToken /\ NextMissRejected]_vars

(* The first chat() of a limiter of 1 request per minute failed upstream   *)
(* and the chat() made at once after it was rate limited.                  *)
RejectedAfterFailedCall ==
    /\ requests_per_minute = 1
    /\ now = 0
    /\ misses = 2
    /\ hits = 0
    /\ cache = <<>>
    /\ database = <<>>
    /\ last.op = "chat"
    /\ last.outcome = "RateLimitError"



(***************************************************************************)
(* C38.  After any sequence of chat() and clear_memory() calls made one    *)
(* after another, the context has even length and alternates user,         *)
(* assistant from a user turn on; a truncation removes whole exchanges:    *)
(* the oldest user turn together with its assistant reply.                 *)
(***************************************************************************)
Alternates(msgs) ==
    /\ Len(msgs) % 2 = 0
    /\ \A i \in 1..Len(msgs) :
          msgs[i].role = (IF i % 2 = 1 THEN "user" ELSE "assistant")

WholeExchangesRemoved ==
    (last'.op = "chat" /\ last'.dropped > 0) =>
        /\ last'.dropped % 2 = 0
        /\ Alternates(SubSeq(memory, 1, last'.dropped))
        /\ SubSeq(memory', 1, Len(memory) - last'.dropped)
              = SubSeq(memory, last'.dropped + 1, Len(memory))

ContextAlternates ==
    /\ [](Alternates(memory))
    /\ [][WholeExchangesRemoved]_vars

(* A fifth exchange was added to a full context: its oldest exchange went  *)
(* and the context again holds four whole exchanges.                       *)
OldestExchangeRemoved ==
    /\ last.op = "chat"
    /\ last.dropped = 2
    /\ Len(memory) = MemoryLimit
    /\ memory[1].role = "user"
    /\ memory[MemoryLimit].role = "assistant"
    /\ memory[MemoryLimit - 1].content = last.args[1]



(***************************************************************************)
(* C39.  Capacity eviction in put never discards a live response while a   *)
(* stale one occupies a slot: whenever put evicts an entry that has not    *)
(* expired, no entry stored in the cache at that moment is expired.        *)
(***************************************************************************)
EvictedByPut == Head(cache)

NoLiveEvictionBesideStale ==
    [][(/\ last'.op = "put"
        /\ last'.outcome = "evicted"
        /\ ~IsExpired(EvictedByPut, ttl_seconds, now))
          => NoneExpired(cache, ttl_seconds, now)]_vars



----------------------------------------------------------------------------
(* POST /chat requests that name a model, made one after another.          *)
(* hist.uses lists the requests that reached an entry of the cache, in     *)
(* order: the key, whether the entry was put (a miss that was answered) or *)
(* read (a hit), and the time the cache recorded.                          *)

ApiModels == {ModelName, "n"}

InitUses == [uses |-> <<>>]

\* POST /chat {"message": prompt, "model": model}
ChatRequest(prompt, model, d, du, up, dbok) ==
    /\ ChatWithBotCall(prompt, model, d, du, up, dbok)
    /\ hist' = IF hits' = hits + 1
               THEN [hist EXCEPT !.uses =
                       Append(@, [key |-> GenerateKey(prompt, model, ""),
                                  put |-> FALSE, t |-> now + d])]
               ELSE IF last'.outcome \in {"miss", "log_failed_miss"}
               THEN [hist EXCEPT !.uses =
                       Append(@, [key |-> GenerateKey(prompt, model, ""),
                                  put |-> TRUE, t |-> now'])]
               ELSE hist

InitHttp ==
    /\ now = 0
    /\ requests_per_minute \in 1..MaxRpm
    /\ bucket = RateLimiter(requests_per_minute, 0)
    /\ cache = <<>>
    /\ max_size \in 1..MaxCacheSize
    /\ ttl_seconds \in 1..MaxTtl
    /\ hits = 0
    /\ misses = 0
    /\ memory = <<>>
    /\ database = <<>>
    /\ last = Last("init", "", "", 0, NoWait)
    /\ hist = InitUses
    /\ threads = NoThreads

NextHttp ==
    \/ Tick(MaxCacheTime)
    \/ \E prompt \in Prompts, model \in ApiModels, d \in 0..1, du \in 0..1,
          up \in Responses \cup {UpstreamFails}, dbok \in BOOLEAN :
          ChatRequest(prompt, model, d, du, up, dbok)

SpecHttp == InitHttp /\ [][NextHttp]_vars

(***************************************************************************)
(* C40.  In HTTP mode every request is served by a new chatbot with an     *)
(* empty context over the shared cache: the key depends on the message and *)
(* the model only, no history carries from one request to the next, and a  *)
(* repeated message with the same model within the TTL is always a hit.    *)
(***************************************************************************)
\* the key of a request: its message and its model, and no context
KeyOfPair(prompt, model) == prompt \o "|" \o model \o "|"

UsesOf(key) == {i \in 1..Len(hist.uses) : hist.uses[i].key = key}
PutsOf(key) == {i \in UsesOf(key) : hist.uses[i].put}
LatestOf(S) == CHOOSE i \in S : \A j \in S : j <= i

\* the key was stored by a request and the TTL of that entry is not over at t
StoredWithinTtl(key, t) ==
    /\ PutsOf(key) # {}
    /\ t - hist.uses[LatestOf(PutsOf(key))].t <= ttl_seconds

\* the other keys that requests stored or read since this one was last used
OthersSince(key) ==
    {hist.uses[j].key : j \in {i \in 1..Len(hist.uses) : i > LatestOf(UsesOf(key))}}

\* C40 as stated: a repeated message within the TTL is always a hit
RepeatAlwaysHits ==
    [][\A prompt \in Prompts, model \in ApiModels, d \in 0..1, du \in 0..1,
          up \in Responses \cup {UpstreamFails}, dbok \in BOOLEAN :
          (/\ ChatRequest(prompt, model, d, du, up, dbok)
           /\ StoredWithinTtl(KeyOfPair(prompt, model), now + d))
             => hits' = hits + 1]_vars

\* C40 amended: the context of every request is empty and stays so, a request
\* hits exactly when the entry of its (message, model) pair is stored and not
\* expired, and a repeated message with the same model within the TTL of its
\* entry is a hit when fewer than max_size other pairs were stored or read
\* since that entry was last used.
RepeatHitsUnlessEvicted ==
    [][\A prompt \in Prompts, model \in ApiModels, d \in 0..1, du \in 0..1,
          up \in Responses \cup {UpstreamFails}, dbok \in BOOLEAN :
          ChatRequest(prompt, model, d, du, up, dbok) =>
            LET key == KeyOfPair(prompt, model)
            IN  /\ memory = <<>> /\ memory' = <<>>
                /\ hits' = hits + 1 <=> GetHit(cache, ttl_seconds, key, now, now + d)
                /\ (/\ StoredWithinTtl(key, now + d)
                    /\ Cardinality(OthersSince(key)) < max_size)
                      => hits' = hits + 1]_vars

(* A message answered for one model was asked again for that model within  *)
(* the TTL, one request for the other model in between, in a cache of two: *)
(* the request was a hit.                                                  *)
RepeatHitAfterOtherModel ==
    /\ max_size = 2
    /\ Len(hist.uses) = 3
    /\ hist.uses[1].put
    /\ hist.uses[2].put
    /\ hist.uses[2].key # hist.uses[1].key
    /\ ~hist.uses[3].put
    /\ hist.uses[3].key = hist.uses[1].key
    /\ last.op = "POST /chat"
    /\ last.outcome = "hit"
    /\ memory = <<>>


====
